---- MODULE Spec2Model ----
(***************************************************************************)
(* Model of the extension risk analyzer of extenscan                       *)
(* (src/src/checker/extension_risk.rs).                                    *)
(*                                                                         *)
(* Strings the code inspects character by character (host patterns, CSP    *)
(* strings, domains) are sequences of one-character strings.  Strings the  *)
(* code only compares for equality or copies (permission names,            *)
(* descriptions, warnings, enum variants) are TLA+ strings.  A string      *)
(* produced by format! is the tuple of its pieces.  Option<T> is a         *)
(* sequence: << >> for None and <<x>> for Some(x).                         *)
(***************************************************************************)
EXTENDS Integers, Sequences, FiniteSets, TLC

VARIABLES pc, args, ret, locals, files, now, stored

vars == <<pc, args, ret, locals, files, now, stored>>

\* what a call of a function from the idle state leaves alone
call_unchanged == <<locals, files, now, stored>>

(***************************************************************************)
(* Bounds of the explored inputs.                                          *)
(***************************************************************************)
MaxHosts == 3
MaxDirectives == 3
MaxPermissions == 2
MaxOptional == 1
MaxExtHosts == 1

(***************************************************************************)
(* str primitives of the Rust standard library, as the code uses them.     *)
(***************************************************************************)
Whitespace == {" ", "\t", "\n"}

starts_with(s, p) ==
    /\ Len(p) <= Len(s)
    /\ SubSeq(s, 1, Len(p)) = p

RECURSIVE trim_start_matches(_, _)
trim_start_matches(s, p) ==
    IF p # << >> /\ starts_with(s, p)
    THEN trim_start_matches(SubSeq(s, Len(p) + 1, Len(s)), p)
    ELSE s

RECURSIVE trim_start(_)
trim_start(s) ==
    IF s # << >> /\ s[1] \in Whitespace THEN trim_start(Tail(s)) ELSE s

RECURSIVE trim_end(_)
trim_end(s) ==
    IF s # << >> /\ s[Len(s)] \in Whitespace
    THEN trim_end(SubSeq(s, 1, Len(s) - 1))
    ELSE s

trim(s) == trim_end(trim_start(s))

\* s.split(c): the pieces of s between occurrences of the character c
RECURSIVE split(_, _)
split(s, c) ==
    IF \E i \in 1..Len(s) : s[i] = c
    THEN LET i == CHOOSE k \in 1..Len(s) :
                      s[k] = c /\ \A j \in 1..(k - 1) : s[j] # c
         IN  <<SubSeq(s, 1, i - 1)>> \o split(SubSeq(s, i + 1, Len(s)), c)
    ELSE <<s>>

\* s.split(c).next(): split always yields a first piece
split_next(s, c) == <<split(s, c)[1]>>

contains_char(s, c) == \E i \in 1..Len(s) : s[i] = c

contains(seq, x) == \E i \in 1..Len(seq) : seq[i] = x

(***************************************************************************)
(* String literals of extension_risk.rs.                                   *)
(***************************************************************************)
ALL_URLS       == <<"<","a","l","l","_","u","r","l","s",">">>
ANY_SCHEME_ALL == <<"*",":","/","/","*","/","*">>
HTTP_ALL       == <<"h","t","t","p",":","/","/","*","/","*">>
HTTPS_ALL      == <<"h","t","t","p","s",":","/","/","*","/","*">>
SCHEME_ANY     == <<"*",":","/","/">>
SCHEME_HTTP    == <<"h","t","t","p",":","/","/">>
SCHEME_HTTPS   == <<"h","t","t","p","s",":","/","/">>
SCHEME_FILE    == <<"f","i","l","e",":","/","/">>
WILD_DOT       == <<"*",".">>
STAR           == <<"*">>

(***************************************************************************)
(* RiskLevel and its score.                                                *)
(***************************************************************************)
RiskLevel == {"Critical", "High", "Medium", "Low", "None"}

\* level_score with 60 for Critical
level_score_critical_60(level) ==
    CASE level = "Critical" -> 60
      [] level = "High"     -> 50
      [] level = "Medium"   -> 20
      [] level = "Low"      -> 5
      [] level = "None"     -> 0

level_score(level) ==
    CASE level = "Critical" -> 100
      [] level = "High"     -> 50
      [] level = "Medium"   -> 20
      [] level = "Low"      -> 5
      [] level = "None"     -> 0

(***************************************************************************)
(* The permission database of get_permission_risk: each table is the set   *)
(* of its entries <<name, description, warning>>.                          *)
(***************************************************************************)
critical_permissions ==
    { <<"debugger", "Access browser debugger",
        "Can read and modify all data on all websites">>,
      <<"proxy", "Control browser proxy settings",
        "Can intercept all network traffic">>,
      <<"vpnProvider", "VPN provider access",
        "Can route all network traffic">>,
      <<"webAuthenticationProxy", "Web authentication proxy",
        "Can intercept authentication flows">> }

high_permissions ==
    { <<"tabs", "Read browser tabs",
        "Can see URLs and titles of all open tabs">>,
      <<"webNavigation", "Monitor navigation",
        "Can read your browsing history">>,
      <<"history", "Access browsing history",
        "Can read and modify browsing history">>,
      <<"bookmarks", "Access bookmarks",
        "Can read and modify your bookmarks">>,
      <<"topSites", "Access top sites",
        "Can see your most visited websites">>,
      <<"sessions", "Access session data",
        "Can access recently closed tabs and windows">>,
      <<"cookies", "Access cookies",
        "Can read and modify cookies for any website">>,
      <<"webRequest", "Intercept web requests",
        "Can observe and analyze traffic">>,
      <<"webRequestBlocking", "Block web requests",
        "Can block or modify network requests">>,
      <<"declarativeNetRequest", "Modify network requests",
        "Can redirect or modify requests">>,
      <<"declarativeNetRequestWithHostAccess", "Modify requests with host access",
        "Can modify requests to allowed hosts">>,
      <<"pageCapture", "Capture pages",
        "Can capture full page content as MHTML">>,
      <<"tabCapture", "Capture tabs",
        "Can capture video/audio from tabs">>,
      <<"desktopCapture", "Capture screen",
        "Can capture your entire screen">>,
      <<"nativeMessaging", "Native messaging",
        "Can communicate with programs on your computer">>,
      <<"management", "Manage extensions",
        "Can manage other installed extensions">>,
      <<"privacy", "Change privacy settings",
        "Can modify browser privacy settings">>,
      <<"browsingData", "Clear browsing data",
        "Can delete browsing history and data">>,
      <<"contentSettings", "Modify content settings",
        "Can change website permissions">>,
      <<"downloads", "Access downloads",
        "Can manage downloaded files">>,
      <<"downloads.open", "Open downloads",
        "Can open downloaded files">>,
      <<"clipboardRead", "Read clipboard",
        "Can read data you copy">> }

medium_permissions ==
    { <<"activeTab", "Access active tab",
        "Can access current tab when you click the extension">>,
      <<"scripting", "Inject scripts",
        "Can inject JavaScript into web pages">>,
      <<"geolocation", "Access location",
        "Can detect your physical location">>,
      <<"notifications", "Show notifications",
        "Can display desktop notifications">>,
      <<"clipboardWrite", "Write clipboard",
        "Can modify your clipboard">>,
      <<"identity", "Access identity",
        "Can access your browser identity">>,
      <<"identity.email", "Access email",
        "Can see your email address">>,
      <<"tts", "Text to speech",
        "Can use text-to-speech">>,
      <<"ttsEngine", "TTS engine",
        "Can provide text-to-speech engine">>,
      <<"webRequestAuthProvider", "Auth provider",
        "Can provide authentication">>,
      <<"userScripts", "User scripts",
        "Can execute user scripts">>,
      <<"offscreen", "Offscreen documents",
        "Can create offscreen documents">> }

low_permissions ==
    { <<"storage", "Store data",
        "Can store extension data locally">>,
      <<"unlimitedStorage", "Unlimited storage",
        "Can store large amounts of data">>,
      <<"alarms", "Set alarms",
        "Can schedule periodic tasks">>,
      <<"contextMenus", "Context menus",
        "Can add items to right-click menu">>,
      <<"idle", "Detect idle",
        "Can detect when you're idle">>,
      <<"power", "Power management",
        "Can affect power saving">>,
      <<"system.cpu", "CPU info",
        "Can read CPU information">>,
      <<"system.memory", "Memory info",
        "Can read memory usage">>,
      <<"system.display", "Display info",
        "Can read display information">>,
      <<"system.storage", "Storage info",
        "Can read storage information">>,
      <<"fontSettings", "Font settings",
        "Can modify font settings">>,
      <<"runtime", "Runtime API",
        "Basic extension runtime access">>,
      <<"gcm", "Cloud messaging",
        "Can receive push messages">>,
      <<"sidePanel", "Side panel",
        "Can show side panel">>,
      <<"favicon", "Favicon access",
        "Can access website favicons">>,
      <<"readingList", "Reading list",
        "Can access reading list">>,
      <<"tabGroups", "Tab groups",
        "Can organize tabs into groups">> }

\* HashMap::get: Some(entry) for the key, None when the key is absent
table_get(table, key) ==
    IF \E e \in table : e[1] = key
    THEN <<CHOOSE e \in table : e[1] = key>>
    ELSE << >>

\* name and description are strings built by to_string or format!: the
\* tuple of their pieces
PermissionRisk(name, level, description, warning) ==
    [name |-> name, level |-> level,
     description |-> description, warning |-> warning]

\* get_permission_risk with the fallback at level None
get_permission_risk_unknown_none(permission) ==
    LET c == table_get(critical_permissions, permission)
        h == table_get(high_permissions, permission)
        m == table_get(medium_permissions, permission)
        l == table_get(low_permissions, permission)
    IN  IF c # << >>
        THEN PermissionRisk(<<permission>>, "Critical",
                            <<c[1][2]>>, <<c[1][3]>>)
        ELSE IF h # << >>
        THEN PermissionRisk(<<permission>>, "High",
                            <<h[1][2]>>, <<h[1][3]>>)
        ELSE IF m # << >>
        THEN PermissionRisk(<<permission>>, "Medium",
                            <<m[1][2]>>, <<m[1][3]>>)
        ELSE IF l # << >>
        THEN PermissionRisk(<<permission>>, "Low",
                            <<l[1][2]>>, <<l[1][3]>>)
        ELSE PermissionRisk(<<permission>>, "None",
                            <<"Unknown permission: ", permission>>, << >>)

get_permission_risk(permission) ==
    LET c == table_get(critical_permissions, permission)
        h == table_get(high_permissions, permission)
        m == table_get(medium_permissions, permission)
        l == table_get(low_permissions, permission)
    IN  IF c # << >>
        THEN PermissionRisk(<<permission>>, "Critical",
                            <<c[1][2]>>, <<c[1][3]>>)
        ELSE IF h # << >>
        THEN PermissionRisk(<<permission>>, "High",
                            <<h[1][2]>>, <<h[1][3]>>)
        ELSE IF m # << >>
        THEN PermissionRisk(<<permission>>, "Medium",
                            <<m[1][2]>>, <<m[1][3]>>)
        ELSE IF l # << >>
        THEN PermissionRisk(<<permission>>, "Low",
                            <<l[1][2]>>, <<l[1][3]>>)
        ELSE PermissionRisk(<<permission>>, "Low",
                            <<"Unknown permission: ", permission>>, << >>)

(***************************************************************************)
(* HostPermissionScope and its score.                                      *)
(***************************************************************************)
HostPermissionScope == {"None", "Specific", "Broad", "AllUrls"}

scope_score(scope) ==
    CASE scope = "None"     -> 0
      [] scope = "Specific" -> 5
      [] scope = "Broad"    -> 30
      [] scope = "AllUrls"  -> 80

(***************************************************************************)
(* extract_domain_from_pattern                                             *)
(***************************************************************************)
\* the pattern without its scheme prefixes, up to the first '/'
domain_segment(pattern) ==
    LET stripped ==
            trim_start_matches(
                trim_start_matches(
                    trim_start_matches(
                        trim_start_matches(pattern, SCHEME_ANY),
                        SCHEME_HTTP),
                    SCHEME_HTTPS),
                SCHEME_FILE)
    IN  split_next(stripped, "/")

extract_domain_from_pattern(pattern) ==
    LET domain == domain_segment(pattern)
    IN  IF domain = << >> THEN << >>
        ELSE IF domain[1] = STAR THEN << >>
        ELSE <<domain[1]>>

(***************************************************************************)
(* analyze_host_permissions                                                *)
(***************************************************************************)
\* the domain part the scope check looks at (no file:// stripping here)
host_domain_part(host) ==
    LET next == split_next(
                    trim_start_matches(
                        trim_start_matches(
                            trim_start_matches(host, SCHEME_ANY),
                            SCHEME_HTTP),
                        SCHEME_HTTPS),
                    "/")
    IN  IF next = << >> THEN << >> ELSE next[1]

is_all_urls_pattern(host) ==
    \/ host = ALL_URLS
    \/ host = ANY_SCHEME_ALL
    \/ host = HTTP_ALL
    \/ host = HTTPS_ALL

\* host_loop_body with a wildcard domain setting Broad whatever the scope
host_loop_body_broad_overrides(st, rawHost) ==
    LET host == trim(rawHost)
        domain_part == host_domain_part(host)
        scope1 ==
            IF is_all_urls_pattern(host)
            THEN "AllUrls"
            ELSE IF starts_with(domain_part, WILD_DOT) \/ domain_part = STAR
                 THEN "Broad"
                 ELSE st.scope
        extracted == extract_domain_from_pattern(host)
        domains1 ==
            IF extracted # << >> /\ ~contains(st.domains, extracted[1])
            THEN Append(st.domains, extracted[1])
            ELSE st.domains
    IN  [scope |-> scope1, domains |-> domains1]

\* host_loop_body pushing every extracted domain
host_loop_body_no_dedup(st, rawHost) ==
    LET host == trim(rawHost)
        domain_part == host_domain_part(host)
        scope1 ==
            IF is_all_urls_pattern(host)
            THEN "AllUrls"
            ELSE IF starts_with(domain_part, WILD_DOT) \/ domain_part = STAR
                 THEN IF st.scope # "AllUrls" THEN "Broad" ELSE st.scope
                 ELSE st.scope
        extracted == extract_domain_from_pattern(host)
        domains1 ==
            IF extracted # << >>
            THEN Append(st.domains, extracted[1])
            ELSE st.domains
    IN  [scope |-> scope1, domains |-> domains1]

\* one iteration of the loop over hosts; st = [scope, domains]
host_loop_body(st, rawHost) ==
    LET host == trim(rawHost)
        domain_part == host_domain_part(host)
        scope1 ==
            IF is_all_urls_pattern(host)
            THEN "AllUrls"
            ELSE IF starts_with(domain_part, WILD_DOT) \/ domain_part = STAR
                 THEN IF st.scope # "AllUrls" THEN "Broad" ELSE st.scope
                 ELSE st.scope
        extracted == extract_domain_from_pattern(host)
        domains1 ==
            IF extracted # << >> /\ ~contains(st.domains, extracted[1])
            THEN Append(st.domains, extracted[1])
            ELSE st.domains
    IN  [scope |-> scope1, domains |-> domains1]

RECURSIVE host_loop(_, _)
host_loop(st, hosts) ==
    IF hosts = << >> THEN st
    ELSE host_loop(host_loop_body(st, Head(hosts)), Tail(hosts))

analyze_host_permissions(hosts) ==
    IF hosts = << >>
    THEN [scope |-> "None", domains |-> << >>]
    ELSE host_loop([scope |-> "Specific", domains |-> << >>], hosts)

(***************************************************************************)
(* analyze_csp                                                             *)
(***************************************************************************)
UNSAFE_EVAL   == <<"'","u","n","s","a","f","e","-","e","v","a","l","'">>
UNSAFE_INLINE == <<"'","u","n","s","a","f","e","-","i","n","l","i","n","e","'">>
SCRIPT_SRC    == <<"s","c","r","i","p","t","-","s","r","c">>
DEFAULT_SRC   == <<"d","e","f","a","u","l","t","-","s","r","c">>
CONNECT_SRC   == <<"c","o","n","n","e","c","t","-","s","r","c">>

\* s.split_whitespace(): the maximal runs of non-whitespace characters
RECURSIVE split_whitespace(_)
split_whitespace(s) ==
    LET t == trim_start(s)
    IN  IF t = << >> THEN << >>
        ELSE LET n == IF \E i \in 1..Len(t) : t[i] \in Whitespace
                      THEN (CHOOSE k \in 1..Len(t) :
                               /\ t[k] \in Whitespace
                               /\ \A j \in 1..(k - 1) : t[j] \notin Whitespace)
                           - 1
                      ELSE Len(t)
             IN  <<SubSeq(t, 1, n)>>
                 \o split_whitespace(SubSeq(t, n + 1, Len(t)))

CspAnalysisDefault ==
    [has_csp |-> FALSE, allows_unsafe_eval |-> FALSE,
     allows_unsafe_inline |-> FALSE, allows_remote_scripts |-> FALSE,
     allowed_domains |-> << >>, issues |-> << >>, score |-> 0]

\* csp_script_value scoring unsafe-eval and unsafe-inline once each
csp_script_value_once(analysis, value) ==
    LET a1 == IF value = UNSAFE_EVAL
              THEN [analysis EXCEPT
                      !.allows_unsafe_eval = TRUE,
                      !.issues = Append(@,
                          <<"CSP allows unsafe-eval (enables eval())">>),
                      !.score = IF analysis.allows_unsafe_eval
                                THEN @ ELSE @ + 40]
              ELSE analysis
        a2 == IF value = UNSAFE_INLINE
              THEN [a1 EXCEPT
                      !.allows_unsafe_inline = TRUE,
                      !.issues = Append(@,
                          <<"CSP allows unsafe-inline scripts">>),
                      !.score = IF a1.allows_unsafe_inline
                                THEN @ ELSE @ + 30]
              ELSE a1
    IN  IF starts_with(value, SCHEME_HTTP) \/ starts_with(value, SCHEME_HTTPS)
        THEN LET domain == extract_domain_from_pattern(value)
             IN  [a2 EXCEPT
                    !.allows_remote_scripts = TRUE,
                    !.allowed_domains =
                        IF domain # << >> THEN Append(@, domain[1]) ELSE @]
        ELSE a2

\* one value of a script-src or default-src directive
csp_script_value(analysis, value) ==
    LET a1 == IF value = UNSAFE_EVAL
              THEN [analysis EXCEPT
                      !.allows_unsafe_eval = TRUE,
                      !.issues = Append(@,
                          <<"CSP allows unsafe-eval (enables eval())">>),
                      !.score = @ + 40]
              ELSE analysis
        a2 == IF value = UNSAFE_INLINE
              THEN [a1 EXCEPT
                      !.allows_unsafe_inline = TRUE,
                      !.issues = Append(@,
                          <<"CSP allows unsafe-inline scripts">>),
                      !.score = @ + 30]
              ELSE a1
    IN  IF starts_with(value, SCHEME_HTTP) \/ starts_with(value, SCHEME_HTTPS)
        THEN LET domain == extract_domain_from_pattern(value)
             IN  [a2 EXCEPT
                    !.allows_remote_scripts = TRUE,
                    !.allowed_domains =
                        IF domain # << >> THEN Append(@, domain[1]) ELSE @]
        ELSE a2

\* one value of a connect-src directive
csp_connect_value(analysis, value) ==
    IF \/ starts_with(value, SCHEME_HTTP)
       \/ starts_with(value, SCHEME_HTTPS)
       \/ contains_char(value, "*")
    THEN LET domain == extract_domain_from_pattern(value)
         IN  IF domain # << >> /\ ~contains(analysis.allowed_domains, domain[1])
             THEN [analysis EXCEPT !.allowed_domains = Append(@, domain[1])]
             ELSE analysis
    ELSE analysis

RECURSIVE csp_script_values(_, _)
csp_script_values(analysis, values) ==
    IF values = << >> THEN analysis
    ELSE csp_script_values(csp_script_value(analysis, Head(values)),
                           Tail(values))

RECURSIVE csp_connect_values(_, _)
csp_connect_values(analysis, values) ==
    IF values = << >> THEN analysis
    ELSE csp_connect_values(csp_connect_value(analysis, Head(values)),
                            Tail(values))

\* one iteration of the loop over csp.split(';')
csp_directive(analysis, rawDirective) ==
    LET directive == trim(rawDirective)
        parts == split_whitespace(directive)
    IN  IF directive = << >> THEN analysis
        ELSE IF parts = << >> THEN analysis
        ELSE LET directive_name == parts[1]
                 values == Tail(parts)
             IN  IF directive_name = SCRIPT_SRC \/ directive_name = DEFAULT_SRC
                 THEN csp_script_values(analysis, values)
                 ELSE IF directive_name = CONNECT_SRC
                 THEN csp_connect_values(analysis, values)
                 ELSE analysis

RECURSIVE csp_directives(_, _)
csp_directives(analysis, directives) ==
    IF directives = << >> THEN analysis
    ELSE csp_directives(csp_directive(analysis, Head(directives)),
                        Tail(directives))

\* csp_remote_scripts with the score set instead of raised
csp_remote_scripts_assign(analysis) ==
    IF analysis.allows_remote_scripts
    THEN [analysis EXCEPT
            !.issues = Append(@,
                <<"CSP allows loading scripts from ",
                  ToString(Len(analysis.allowed_domains)),
                  " external domain(s)">>),
            !.score = 10 * Len(analysis.allowed_domains)]
    ELSE analysis

\* the step after the loop: the remote-script issue and its score
csp_remote_scripts(analysis) ==
    IF analysis.allows_remote_scripts
    THEN [analysis EXCEPT
            !.issues = Append(@,
                <<"CSP allows loading scripts from ",
                  ToString(Len(analysis.allowed_domains)),
                  " external domain(s)">>),
            !.score = @ + 10 * Len(analysis.allowed_domains)]
    ELSE analysis

analyze_csp(csp) ==
    IF csp = << >> \/ csp[1] = << >>
    THEN [CspAnalysisDefault EXCEPT
            !.issues = Append(@, <<"No Content Security Policy defined">>),
            !.score = 30]
    ELSE csp_remote_scripts(
             csp_directives([CspAnalysisDefault EXCEPT !.has_csp = TRUE],
                            split(csp[1], ";")))

(***************************************************************************)
(* analyze_extension                                                       *)
(***************************************************************************)
RiskIssue(category, severity, title, description) ==
    [category |-> category, severity |-> severity,
     title |-> title, description |-> description]

ExtensionRiskReportDefault ==
    [total_score |-> 0, risk_level |-> << >>, permissions |-> << >>,
     host_permissions |-> << >>, host_permission_scope |-> "None",
     csp |-> CspAnalysisDefault, external_domains |-> << >>,
     issues |-> << >>]

\* required_loop with the score assigned instead of accumulated
RECURSIVE required_loop_assign(_, _)
required_loop_assign(report, permissions) ==
    IF permissions = << >> THEN report
    ELSE LET risk == get_permission_risk(Head(permissions))
         IN  required_loop_assign(
                 [report EXCEPT
                    !.total_score = level_score(risk.level),
                    !.permissions = Append(@, risk)],
                 Tail(permissions))

RECURSIVE required_loop(_, _)
required_loop(report, permissions) ==
    IF permissions = << >> THEN report
    ELSE LET risk == get_permission_risk(Head(permissions))
         IN  required_loop(
                 [report EXCEPT
                    !.total_score = @ + level_score(risk.level),
                    !.permissions = Append(@, risk)],
                 Tail(permissions))

\* optional_loop with optional permissions at full weight
RECURSIVE optional_loop_full_weight(_, _)
optional_loop_full_weight(report, optional_permissions) ==
    IF optional_permissions = << >> THEN report
    ELSE LET risk == get_permission_risk(Head(optional_permissions))
             optional_risk ==
                 [risk EXCEPT !.name = @ \o <<" (optional)">>]
         IN  optional_loop_full_weight(
                 [report EXCEPT
                    !.total_score = @ + level_score(risk.level),
                    !.permissions = Append(@, optional_risk)],
                 Tail(optional_permissions))

RECURSIVE optional_loop(_, _)
optional_loop(report, optional_permissions) ==
    IF optional_permissions = << >> THEN report
    ELSE LET risk == get_permission_risk(Head(optional_permissions))
             optional_risk ==
                 [risk EXCEPT !.name = @ \o <<" (optional)">>]
         IN  optional_loop(
                 [report EXCEPT
                    !.total_score = @ + (level_score(risk.level) \div 2),
                    !.permissions = Append(@, optional_risk)],
                 Tail(optional_permissions))

RECURSIVE count_critical(_)
count_critical(permissions) ==
    IF permissions = << >> THEN 0
    ELSE (IF Head(permissions).level = "Critical" THEN 1 ELSE 0)
         + count_critical(Tail(permissions))

\* generate_issues with the three checks chained by else
generate_issues_else_chain(report) ==
    LET critical_count == count_critical(report.permissions)
    IN  report.issues \o
        (IF report.host_permission_scope = "AllUrls"
         THEN <<RiskIssue(<<"Permissions">>, "Critical",
                          <<"All URLs access">>,
                          <<"Extension can access all websites">>)>>
         ELSE IF critical_count > 0
         THEN <<RiskIssue(<<"Permissions">>, "Critical",
                          <<ToString(critical_count),
                            " critical permission(s)">>,
                          <<"Extension requests highly dangerous permissions">>)>>
         ELSE IF report.csp.allows_unsafe_eval
         THEN <<RiskIssue(<<"Security Policy">>, "High",
                          <<"Allows eval()">>,
                          <<"Content Security Policy allows code execution via eval()">>)>>
         ELSE << >>)

generate_issues(report) ==
    LET i1 == IF report.host_permission_scope = "AllUrls"
              THEN <<RiskIssue(<<"Permissions">>, "Critical",
                               <<"All URLs access">>,
                               <<"Extension can access all websites">>)>>
              ELSE << >>
        critical_count == count_critical(report.permissions)
        i2 == IF critical_count > 0
              THEN <<RiskIssue(<<"Permissions">>, "Critical",
                               <<ToString(critical_count),
                                 " critical permission(s)">>,
                               <<"Extension requests highly dangerous permissions">>)>>
              ELSE << >>
        i3 == IF report.csp.allows_unsafe_eval
              THEN <<RiskIssue(<<"Security Policy">>, "High",
                               <<"Allows eval()">>,
                               <<"Content Security Policy allows code execution via eval()">>)>>
              ELSE << >>
    IN  report.issues \o i1 \o i2 \o i3

\* risk_level_of with the medium range ending before 100
risk_level_of_exclusive(total_score) ==
    IF total_score \in 0..20 THEN <<"low">>
    ELSE IF total_score \in 21..99 THEN <<"medium">>
    ELSE IF total_score \in 100..300 THEN <<"high">>
    ELSE <<"critical">>

risk_level_of(total_score) ==
    IF total_score \in 0..20 THEN <<"low">>
    ELSE IF total_score \in 21..100 THEN <<"medium">>
    ELSE IF total_score \in 101..300 THEN <<"high">>
    ELSE <<"critical">>

analyze_extension(permissions, optional_permissions, host_permissions, csp) ==
    LET r1 == required_loop(ExtensionRiskReportDefault, permissions)
        r2 == optional_loop(r1, optional_permissions)
        hp == analyze_host_permissions(host_permissions)
        r3 == [r2 EXCEPT
                 !.host_permission_scope = hp.scope,
                 !.host_permissions = host_permissions,
                 !.total_score = @ + scope_score(hp.scope),
                 !.external_domains = hp.domains]
        analysis == analyze_csp(csp)
        r4 == [r3 EXCEPT !.csp = analysis,
                         !.total_score = @ + analysis.score]
        r5 == [r4 EXCEPT !.issues = generate_issues(r4)]
    IN  [r5 EXCEPT !.risk_level = risk_level_of(r5.total_score)]

(***************************************************************************)
(* src/checker/osv.rs: the severity of a CVSS score string.  A score is a  *)
(* sequence of one-character strings.                                      *)
(***************************************************************************)
Severity == {"Critical", "High", "Medium", "Low", "Unknown"}

Digits == <<"0", "1", "2", "3", "4", "5", "6", "7", "8", "9">>

is_digit(c) == \E d \in 1..Len(Digits) : Digits[d] = c

digit_value(c) == (CHOOSE d \in 1..Len(Digits) : Digits[d] = c) - 1

all_digits(s) == \A i \in 1..Len(s) : is_digit(s[i])

\* the number a string of digits writes
RECURSIVE digits_value(_)
digits_value(s) ==
    IF s = << >> THEN 0
    ELSE digits_value(SubSeq(s, 1, Len(s) - 1)) * 10
             + digit_value(s[Len(s)])

\* the decimal digits of a natural number
RECURSIVE to_digits(_)
to_digits(n) ==
    IF n < 10 THEN <<Digits[n + 1]>>
    ELSE to_digits(n \div 10) \o <<Digits[(n % 10) + 1]>>

RECURSIVE pow10(_)
pow10(n) == IF n = 0 THEN 1 ELSE 10 * pow10(n - 1)

\* str::contains(&str): pat occurs in s as a substring
contains_str(s, pat) ==
    \E i \in 1..(Len(s) - Len(pat) + 1) :
        SubSeq(s, i, i + Len(pat) - 1) = pat

\* the position of the first element of s that is in the set cs, 0 if none
first_index(s, cs) ==
    IF \E i \in 1..Len(s) : s[i] \in cs
    THEN CHOOSE i \in 1..Len(s) :
             /\ s[i] \in cs
             /\ \A j \in 1..(i - 1) : s[j] \notin cs
    ELSE 0

\* ASCII lower case of the letters the names of the special floats use
ascii_lower(c) ==
    CASE c = "I" -> "i" [] c = "N" -> "n" [] c = "F" -> "f"
      [] c = "T" -> "t" [] c = "Y" -> "y" [] c = "A" -> "a"
      [] OTHER -> c

to_ascii_lowercase(s) == [i \in 1..Len(s) |-> ascii_lower(s[i])]

INF == <<"i","n","f">>
INFINITY == <<"i","n","f","i","n","i","t","y">>
NAN == <<"n","a","n">>

\* str::parse::<f32>(): an optional sign, then inf, infinity or nan in any
\* case, or a decimal number (digits with an optional point, at least one
\* digit) with an optional exponent.  The result is << >> (Err) or <<v>>
\* (Ok) where a finite v is the exact value num * 10^exp / den with den a
\* power of ten.  (f32 rounds to 24 significant bits, which no comparison
\* with 9.0, 7.0, 4.0 or 0.0 of a number of fewer than 7 digits can see.)
parse_f32(s) ==
    LET signed == s # << >> /\ s[1] \in {"+", "-"}
        neg    == s # << >> /\ s[1] = "-"
        body   == IF signed THEN Tail(s) ELSE s
        lower  == to_ascii_lowercase(body)
        e      == first_index(body, {"e", "E"})
        mant   == IF e = 0 THEN body ELSE SubSeq(body, 1, e - 1)
        expo   == IF e = 0 THEN << >> ELSE SubSeq(body, e + 1, Len(body))
        esign  == expo # << >> /\ expo[1] \in {"+", "-"}
        eneg   == expo # << >> /\ expo[1] = "-"
        edig   == IF esign THEN Tail(expo) ELSE expo
        p      == first_index(mant, {"."})
        int    == IF p = 0 THEN mant ELSE SubSeq(mant, 1, p - 1)
        frac   == IF p = 0 THEN << >> ELSE SubSeq(mant, p + 1, Len(mant))
        ok     == /\ all_digits(int)
                  /\ all_digits(frac)
                  /\ Len(int) + Len(frac) > 0
                  /\ e # 0 => (edig # << >> /\ all_digits(edig))
        m      == digits_value(int \o frac)
        ev     == IF e = 0 THEN 0 ELSE digits_value(edig)
    IN  IF lower \in {INF, INFINITY}
        THEN <<[kind |-> "inf", neg |-> neg, num |-> 0, den |-> 1]>>
        ELSE IF lower = NAN
        THEN <<[kind |-> "nan", neg |-> neg, num |-> 0, den |-> 1]>>
        ELSE IF ~ok THEN << >>
        ELSE <<[kind |-> "finite", neg |-> neg,
                num |-> (IF neg THEN 0 - m ELSE m)
                          * (IF eneg THEN 1 ELSE pow10(ev)),
                den |-> pow10(Len(frac))
                          * (IF eneg THEN pow10(ev) ELSE 1)]>>

\* v >= n and v > n for a parsed float v and an integer n >= 0
f32_ge(v, n) ==
    CASE v.kind = "nan" -> FALSE
      [] v.kind = "inf" -> ~v.neg
      [] OTHER -> v.num >= n * v.den

f32_gt(v, n) ==
    CASE v.kind = "nan" -> FALSE
      [] v.kind = "inf" -> ~v.neg
      [] OTHER -> v.num > n * v.den

CVSS_COLON == <<"C","V","S","S",":">>
C_HIGH == <<"/","C",":","H">>
I_HIGH == <<"/","I",":","H">>
A_HIGH == <<"/","A",":","H">>
C_LOW == <<"/","C",":","L">>
I_LOW == <<"/","I",":","L">>
A_LOW == <<"/","A",":","L">>

\* cvss_vector_severity with the Low markers looked for first
cvss_vector_severity_low_first(score) ==
    IF contains_str(score, CVSS_COLON)
    THEN IF \/ contains_str(score, C_LOW)
            \/ contains_str(score, I_LOW)
            \/ contains_str(score, A_LOW)
         THEN "Medium"
         ELSE IF \/ contains_str(score, C_HIGH)
                 \/ contains_str(score, I_HIGH)
                 \/ contains_str(score, A_HIGH)
         THEN "High"
         ELSE "Low"
    ELSE "Unknown"

\* the severity of a CVSS vector string, or Unknown without "CVSS:"
cvss_vector_severity(score) ==
    IF contains_str(score, CVSS_COLON)
    THEN IF \/ contains_str(score, C_HIGH)
            \/ contains_str(score, I_HIGH)
            \/ contains_str(score, A_HIGH)
         THEN "High"
         ELSE IF \/ contains_str(score, C_LOW)
                 \/ contains_str(score, I_LOW)
                 \/ contains_str(score, A_LOW)
         THEN "Medium"
         ELSE "Low"
    ELSE "Unknown"

\* parse_cvss_score with the boundaries 9.0, 7.0 and 4.0 exclusive
parse_cvss_score_exclusive(score) ==
    LET parsed == parse_f32(score)
    IN  IF parsed # << >>
        THEN LET cvss == parsed[1]
             IN  IF f32_gt(cvss, 9) THEN "Critical"
                 ELSE IF f32_gt(cvss, 7) THEN "High"
                 ELSE IF f32_gt(cvss, 4) THEN "Medium"
                 ELSE IF f32_gt(cvss, 0) THEN "Low"
                 ELSE "Unknown"
        ELSE cvss_vector_severity(score)

parse_cvss_score(score) ==
    LET parsed == parse_f32(score)
    IN  IF parsed # << >>
        THEN LET cvss == parsed[1]
             IN  IF f32_ge(cvss, 9) THEN "Critical"
                 ELSE IF f32_ge(cvss, 7) THEN "High"
                 ELSE IF f32_ge(cvss, 4) THEN "Medium"
                 ELSE IF f32_gt(cvss, 0) THEN "Low"
                 ELSE "Unknown"
        ELSE cvss_vector_severity(score)

\* parse_severity returning the class of the first entry that has a score
RECURSIVE parse_severity_loop_first_scored(_)
parse_severity_loop_first_scored(severities) ==
    IF severities = << >> THEN "Unknown"
    ELSE LET sev == Head(severities)
         IN  IF sev.score # << >>
             THEN parse_cvss_score(sev.score[1])
             ELSE parse_severity_loop_first_scored(Tail(severities))

\* the loop of parse_severity over the entries left
RECURSIVE parse_severity_loop(_)
parse_severity_loop(severities) ==
    IF severities = << >> THEN "Unknown"
    ELSE LET sev == Head(severities)
             severity == IF sev.score # << >>
                         THEN parse_cvss_score(sev.score[1])
                         ELSE "Unknown"
         IN  IF sev.score # << >> /\ severity # "Unknown"
             THEN severity
             ELSE parse_severity_loop(Tail(severities))

\* vuln.severity is << >> (None) or <<entries>> (Some)
parse_severity(vuln) ==
    IF vuln.severity # << >>
    THEN parse_severity_loop(vuln.severity[1])
    ELSE "Unknown"

(***************************************************************************)
(* src/checker/version.rs: is_newer.  A version is a sequence of           *)
(* one-character strings.  semver::Version::parse and the order of         *)
(* semver::Version are modelled for versions without build metadata: no    *)
(* input has a '+'.                                                        *)
(***************************************************************************)
\* the characters of a pre-release identifier, in ASCII order
AsciiOrder ==
    <<"-">> \o Digits \o
    <<"A","B","C","D","E","F","G","H","I","J","K","L","M",
      "N","O","P","Q","R","S","T","U","V","W","X","Y","Z",
      "a","b","c","d","e","f","g","h","i","j","k","l","m",
      "n","o","p","q","r","s","t","u","v","w","x","y","z">>

IdentChars == { AsciiOrder[i] : i \in 1..Len(AsciiOrder) }

ascii_code(c) == CHOOSE i \in 1..Len(AsciiOrder) : AsciiOrder[i] = c

int_cmp(a, b) == IF a < b THEN 0 - 1 ELSE IF a > b THEN 1 ELSE 0

\* the order of two strings by their characters' codes
RECURSIVE str_cmp(_, _)
str_cmp(a, b) ==
    IF a = << >> /\ b = << >> THEN 0
    ELSE IF a = << >> THEN 0 - 1
    ELSE IF b = << >> THEN 1
    ELSE IF a[1] # b[1] THEN int_cmp(ascii_code(a[1]), ascii_code(b[1]))
    ELSE str_cmp(Tail(a), Tail(b))

\* the digits of u64::MAX
U64_MAX == <<"1","8","4","4","6","7","4","4","0","7","3","7","0","9","5","5","1","6","1","5">>

\* the number that the digits s write, s without a leading zero, is at most
\* the number that the digits max write
at_most(s, max) ==
    \/ Len(s) < Len(max)
    \/ Len(s) = Len(max) /\ str_cmp(s, max) <= 0

\* a numeric component: digits without a leading zero, within u64
is_numeric_component(s) ==
    /\ s # << >>
    /\ all_digits(s)
    /\ Len(s) > 1 => s[1] # "0"
    /\ at_most(s, U64_MAX)

\* a pre-release identifier: not empty, of letters, digits and hyphens, and
\* without a leading zero when it is all digits
is_prerelease_identifier(s) ==
    /\ s # << >>
    /\ \A i \in 1..Len(s) : s[i] \in IdentChars
    /\ (all_digits(s) /\ Len(s) > 1) => s[1] # "0"

\* semver::Version::parse: << >> (Err) or <<version>> (Ok); pre holds the
\* pre-release identifiers, none for a release
semver_parse(s) ==
    LET h     == first_index(s, {"-"})
        core  == IF h = 0 THEN s ELSE SubSeq(s, 1, h - 1)
        pre   == IF h = 0 THEN << >>
                 ELSE split(SubSeq(s, h + 1, Len(s)), ".")
        parts == split(core, ".")
    IN  IF /\ Len(parts) = 3
           /\ \A i \in 1..3 : is_numeric_component(parts[i])
           /\ \A i \in 1..Len(pre) : is_prerelease_identifier(pre[i])
        THEN <<[major |-> digits_value(parts[1]),
                minor |-> digits_value(parts[2]),
                patch |-> digits_value(parts[3]),
                pre   |-> pre]>>
        ELSE << >>

\* the order of two pre-release identifiers: numeric ones by value and
\* below the others, the others by their characters
identifier_cmp(a, b) ==
    IF all_digits(a) /\ all_digits(b)
    THEN int_cmp(digits_value(a), digits_value(b))
    ELSE IF all_digits(a) THEN 0 - 1
    ELSE IF all_digits(b) THEN 1
    ELSE str_cmp(a, b)

\* the order of two pre-releases: none (a release) is above any, and a
\* longer list is above its prefix
RECURSIVE identifiers_cmp(_, _)
identifiers_cmp(p, q) ==
    IF p = << >> /\ q = << >> THEN 0
    ELSE IF p = << >> THEN 0 - 1
    ELSE IF q = << >> THEN 1
    ELSE IF identifier_cmp(p[1], q[1]) # 0
    THEN identifier_cmp(p[1], q[1])
    ELSE identifiers_cmp(Tail(p), Tail(q))

prerelease_cmp(p, q) ==
    IF p = << >> /\ q = << >> THEN 0
    ELSE IF p = << >> THEN 1
    ELSE IF q = << >> THEN 0 - 1
    ELSE identifiers_cmp(p, q)

\* version_cmp with the three numbers compared as their decimal strings
version_cmp_lexical(a, b) ==
    IF a.major # b.major
    THEN str_cmp(to_digits(a.major), to_digits(b.major))
    ELSE IF a.minor # b.minor
    THEN str_cmp(to_digits(a.minor), to_digits(b.minor))
    ELSE IF a.patch # b.patch
    THEN str_cmp(to_digits(a.patch), to_digits(b.patch))
    ELSE prerelease_cmp(a.pre, b.pre)

\* Ord for semver::Version
version_cmp(a, b) ==
    IF a.major # b.major THEN int_cmp(a.major, b.major)
    ELSE IF a.minor # b.minor THEN int_cmp(a.minor, b.minor)
    ELSE IF a.patch # b.patch THEN int_cmp(a.patch, b.patch)
    ELSE prerelease_cmp(a.pre, b.pre)

UNKNOWN == <<"u","n","k","n","o","w","n">>
LOWER_V == <<"v">>

\* is_newer without the test for an unknown current version
is_newer_no_unknown(latest, current) ==
    LET latest_ver  == semver_parse(trim_start_matches(latest, LOWER_V))
        current_ver == semver_parse(trim_start_matches(current, LOWER_V))
    IN  IF latest_ver # << >> /\ current_ver # << >>
        THEN version_cmp(latest_ver[1], current_ver[1]) = 1
        ELSE latest # current

is_newer(latest, current) ==
    LET latest_ver  == semver_parse(trim_start_matches(latest, LOWER_V))
        current_ver == semver_parse(trim_start_matches(current, LOWER_V))
    IN  IF latest_ver # << >> /\ current_ver # << >>
        THEN version_cmp(latest_ver[1], current_ver[1]) = 1
        ELSE IF current = UNKNOWN THEN FALSE
        ELSE latest # current

(***************************************************************************)
(* src/output/cli.rs: classify_update and calculate_health_score.          *)
(***************************************************************************)
\* the digits of u32::MAX
U32_MAX == <<"4","2","9","4","9","6","7","2","9","5">>

\* digits without their leading zeros, the last digit kept
RECURSIVE strip_leading_zeros(_)
strip_leading_zeros(s) ==
    IF Len(s) > 1 /\ s[1] = "0" THEN strip_leading_zeros(Tail(s)) ELSE s

\* str::parse::<u32>().ok(): an optional '+', then digits that write a number
\* within u32; << >> (None) or <<n>> (Some) where n is the number written
\* in decimal without leading zeros
parse_u32(s) ==
    LET digits == IF s # << >> /\ s[1] = "+" THEN Tail(s) ELSE s
        n      == strip_leading_zeros(digits)
    IN  IF digits # << >> /\ all_digits(digits) /\ at_most(n, U32_MAX)
        THEN <<n>>
        ELSE << >>

\* a > b for two numbers written in decimal without leading zeros
u32_gt(a, b) ==
    \/ Len(a) > Len(b)
    \/ Len(a) = Len(b) /\ str_cmp(a, b) = 1

DOT == "."

classify_update(current, latest) ==
    LET current_clean == trim_start_matches(current, LOWER_V)
        latest_clean  == trim_start_matches(latest, LOWER_V)
        current_parts == split(current_clean, DOT)
        latest_parts  == split(latest_clean, DOT)
        current_major == parse_u32(current_parts[1])
        latest_major  == parse_u32(latest_parts[1])
    IN  IF current_parts # << >> /\ latest_parts # << >>
        THEN IF /\ current_major # << >>
                /\ latest_major # << >>
                /\ u32_gt(latest_major[1], current_major[1])
             THEN <<"M","A","J","O","R">>
             ELSE IF Len(current_parts) >= 2 /\ Len(latest_parts) >= 2
             THEN LET current_minor == parse_u32(current_parts[2])
                      latest_minor  == parse_u32(latest_parts[2])
                  IN  IF /\ current_minor # << >>
                         /\ latest_minor # << >>
                         /\ current_major = latest_major
                         /\ u32_gt(latest_minor[1], current_minor[1])
                      THEN <<"m","i","n","o","r">>
                      ELSE <<"p","a","t","c","h">>
             ELSE <<"p","a","t","c","h">>
        ELSE <<"p","a","t","c","h">>

\* what one vulnerability takes off the score
severity_deduction(severity) ==
    CASE severity = "Critical" -> 25
      [] severity = "High" -> 15
      [] severity = "Medium" -> 8
      [] severity = "Low" -> 3
      [] severity = "Unknown" -> 5

\* the loop over result.vulnerabilities
RECURSIVE vulnerabilities_loop(_, _)
vulnerabilities_loop(score, vulnerabilities) ==
    IF vulnerabilities = << >> THEN score
    ELSE vulnerabilities_loop(
             score - severity_deduction(Head(vulnerabilities).severity),
             Tail(vulnerabilities))

\* is_major with the versions taken as they are, a leading v included
is_major_no_strip(outdated) ==
    LET c  == outdated.current_version
        l  == outdated.latest_version
        cp == split(c, DOT)
        lp == split(l, DOT)
        cm == IF cp = << >> THEN << >> ELSE parse_u32(cp[1])
        lm == IF lp = << >> THEN << >> ELSE parse_u32(lp[1])
    IN  IF cm # << >> /\ lm # << >> THEN u32_gt(lm[1], cm[1]) ELSE FALSE

\* is_major of calculate_health_score
is_major(outdated) ==
    LET c  == trim_start_matches(outdated.current_version, LOWER_V)
        l  == trim_start_matches(outdated.latest_version, LOWER_V)
        cp == split(c, DOT)
        lp == split(l, DOT)
        cm == IF cp = << >> THEN << >> ELSE parse_u32(cp[1])
        lm == IF lp = << >> THEN << >> ELSE parse_u32(lp[1])
    IN  IF cm # << >> /\ lm # << >> THEN u32_gt(lm[1], cm[1]) ELSE FALSE

\* the loop over result.outdated
RECURSIVE outdated_loop(_, _)
outdated_loop(score, outdated) ==
    IF outdated = << >> THEN score
    ELSE outdated_loop(
             IF is_major(Head(outdated)) THEN score - 5 ELSE score - 2,
             Tail(outdated))

\* i32::clamp
clamp(x, min, max) == IF x < min THEN min ELSE IF x > max THEN max ELSE x

calculate_health_score(result) ==
    IF result.packages = << >> THEN 100
    ELSE LET score == outdated_loop(
                          vulnerabilities_loop(100, result.vulnerabilities),
                          result.outdated)
         IN  clamp(score, 0, 100)

(***************************************************************************)
(* src/output/html.rs: the HTML formatter's own calculate_health_score and *)
(* classify_update.                                                        *)
(***************************************************************************)
\* html_severity_deduction with Unknown counted like Low
html_severity_deduction_unknown_as_low(severity) ==
    CASE severity = "Critical" -> 25
      [] severity = "High" -> 15
      [] severity = "Medium" -> 8
      [] severity = "Low" -> 3
      [] severity = "Unknown" -> 3

\* what one vulnerability takes off the score
html_severity_deduction(severity) ==
    CASE severity = "Critical" -> 25
      [] severity = "High" -> 15
      [] severity = "Medium" -> 8
      [] severity = "Low" -> 3
      [] severity = "Unknown" -> 5

\* the loop over result.vulnerabilities
RECURSIVE html_vulnerabilities_loop(_, _)
html_vulnerabilities_loop(score, vulnerabilities) ==
    IF vulnerabilities = << >> THEN score
    ELSE html_vulnerabilities_loop(
             score - html_severity_deduction(Head(vulnerabilities).severity),
             Tail(vulnerabilities))

\* is_major of calculate_health_score
html_is_major(outdated) ==
    LET c  == trim_start_matches(outdated.current_version, LOWER_V)
        l  == trim_start_matches(outdated.latest_version, LOWER_V)
        cp == split(c, DOT)
        lp == split(l, DOT)
        cm == IF cp = << >> THEN << >> ELSE parse_u32(cp[1])
        lm == IF lp = << >> THEN << >> ELSE parse_u32(lp[1])
    IN  IF cm # << >> /\ lm # << >> THEN u32_gt(lm[1], cm[1]) ELSE FALSE

\* the loop over result.outdated
RECURSIVE html_outdated_loop(_, _)
html_outdated_loop(score, outdated) ==
    IF outdated = << >> THEN score
    ELSE html_outdated_loop(
             IF html_is_major(Head(outdated)) THEN score - 5 ELSE score - 2,
             Tail(outdated))

html_calculate_health_score(result) ==
    IF result.packages = << >> THEN 100
    ELSE LET score == html_outdated_loop(
                          html_vulnerabilities_loop(100, result.vulnerabilities),
                          result.outdated)
         IN  clamp(score, 0, 100)

html_classify_update(current, latest) ==
    LET current_clean == trim_start_matches(current, LOWER_V)
        latest_clean  == trim_start_matches(latest, LOWER_V)
        current_parts == split(current_clean, DOT)
        latest_parts  == split(latest_clean, DOT)
        current_major == parse_u32(current_parts[1])
        latest_major  == parse_u32(latest_parts[1])
    IN  IF current_parts # << >> /\ latest_parts # << >>
        THEN IF /\ current_major # << >>
                /\ latest_major # << >>
                /\ u32_gt(latest_major[1], current_major[1])
             THEN <<"M","A","J","O","R">>
             ELSE IF Len(current_parts) >= 2 /\ Len(latest_parts) >= 2
             THEN LET current_minor == parse_u32(current_parts[2])
                      latest_minor  == parse_u32(latest_parts[2])
                  IN  IF /\ current_minor # << >>
                         /\ latest_minor # << >>
                         /\ current_major = latest_major
                         /\ u32_gt(latest_minor[1], current_minor[1])
                      THEN <<"m","i","n","o","r">>
                      ELSE <<"p","a","t","c","h">>
             ELSE <<"p","a","t","c","h">>
        ELSE <<"p","a","t","c","h">>

(***************************************************************************)
(* src/main.rs: the exit code of a scan, and src/config.rs: the ignore     *)
(* list of the configuration.                                              *)
(***************************************************************************)
SUCCESS == 0
CRITICAL_VULN == 2
HIGH_VULN == 3
MEDIUM_VULN == 4
LOW_VULN == 5

FailLevel == {"Critical", "High", "Medium", "Low"}

\* result.vulnerabilities.iter().any(|v| v.severity == severity)
has_severity(result, severity) ==
    \E i \in 1..Len(result.vulnerabilities) :
        result.vulnerabilities[i].severity = severity

\* determine_exit_code returning the code of the level asked for
determine_exit_code_of_level(result, fail_on) ==
    IF fail_on = << >> THEN SUCCESS
    ELSE LET has_critical == has_severity(result, "Critical")
             has_high     == has_severity(result, "High")
             has_medium   == has_severity(result, "Medium")
             has_low      == has_severity(result, "Low")
         IN  CASE fail_on[1] = "Critical" ->
                    IF has_critical THEN CRITICAL_VULN ELSE SUCCESS
               [] fail_on[1] = "High" ->
                    IF has_critical \/ has_high THEN HIGH_VULN ELSE SUCCESS
               [] fail_on[1] = "Medium" ->
                    IF has_critical \/ has_high \/ has_medium
                    THEN MEDIUM_VULN ELSE SUCCESS
               [] fail_on[1] = "Low" ->
                    IF has_critical \/ has_high \/ has_medium \/ has_low
                    THEN LOW_VULN ELSE SUCCESS

\* fail_on is << >> (None) or <<level>> (Some)
determine_exit_code(result, fail_on) ==
    IF fail_on = << >> THEN SUCCESS
    ELSE LET has_critical == has_severity(result, "Critical")
             has_high     == has_severity(result, "High")
             has_medium   == has_severity(result, "Medium")
             has_low      == has_severity(result, "Low")
         IN  CASE fail_on[1] = "Critical" ->
                    IF has_critical THEN CRITICAL_VULN ELSE SUCCESS
               [] fail_on[1] = "High" ->
                    IF has_critical THEN CRITICAL_VULN
                    ELSE IF has_high THEN HIGH_VULN
                    ELSE SUCCESS
               [] fail_on[1] = "Medium" ->
                    IF has_critical THEN CRITICAL_VULN
                    ELSE IF has_high THEN HIGH_VULN
                    ELSE IF has_medium THEN MEDIUM_VULN
                    ELSE SUCCESS
               [] fail_on[1] = "Low" ->
                    IF has_critical THEN CRITICAL_VULN
                    ELSE IF has_high THEN HIGH_VULN
                    ELSE IF has_medium THEN MEDIUM_VULN
                    ELSE IF has_low THEN LOW_VULN
                    ELSE SUCCESS

ASTERISK == "*"

\* str::ends_with
ends_with(s, p) ==
    /\ Len(p) <= Len(s)
    /\ SubSeq(s, Len(s) - Len(p) + 1, Len(s)) = p

\* str::find(&str): << >> (None) or <<pos>> (Some), pos the number of
\* characters before the first occurrence
find(s, pat) ==
    IF contains_str(s, pat)
    THEN <<(CHOOSE i \in 1..(Len(s) - Len(pat) + 1) :
               /\ SubSeq(s, i, i + Len(pat) - 1) = pat
               /\ \A j \in 1..(i - 1) :
                      SubSeq(s, j, j + Len(pat) - 1) # pat) - 1>>
    ELSE << >>

\* the loop of glob_match over the middle parts
RECURSIVE glob_middle_loop(_, _)
glob_middle_loop(remaining, middle) ==
    IF middle = << >> THEN TRUE
    ELSE LET part == Head(middle)
         IN  IF part = << >>
             THEN glob_middle_loop(remaining, Tail(middle))
             ELSE LET pos == find(remaining, part)
                  IN  IF pos # << >>
                      THEN glob_middle_loop(
                               SubSeq(remaining, pos[1] + Len(part) + 1,
                                      Len(remaining)),
                               Tail(middle))
                      ELSE FALSE

\* glob_match with the suffix looked for in the whole text
glob_match_overlap(pattern, text) ==
    LET parts     == split(pattern, ASTERISK)
        first     == parts[1]
        last_part == parts[Len(parts)]
        after_prefix ==
            IF first # << >>
            THEN SubSeq(text, Len(first) + 1, Len(text))
            ELSE text
        after_suffix ==
            IF last_part # << >> /\ Len(last_part) <= Len(after_prefix)
            THEN SubSeq(after_prefix, 1, Len(after_prefix) - Len(last_part))
            ELSE after_prefix
    IN  IF Len(parts) = 1 THEN pattern = text
        ELSE IF first # << >> /\ ~starts_with(text, first) THEN FALSE
        ELSE IF last_part # << >> /\ ~ends_with(text, last_part)
        THEN FALSE
        ELSE glob_middle_loop(after_suffix,
                              SubSeq(parts, 2, Len(parts) - 1))

glob_match(pattern, text) ==
    LET parts     == split(pattern, ASTERISK)
        first     == parts[1]
        last_part == parts[Len(parts)]
        after_prefix ==
            IF first # << >>
            THEN SubSeq(text, Len(first) + 1, Len(text))
            ELSE text
        after_suffix ==
            IF last_part # << >>
            THEN SubSeq(after_prefix, 1, Len(after_prefix) - Len(last_part))
            ELSE after_prefix
    IN  IF Len(parts) = 1 THEN pattern = text
        ELSE IF first # << >> /\ ~starts_with(text, first) THEN FALSE
        ELSE IF last_part # << >> /\ ~ends_with(after_prefix, last_part)
        THEN FALSE
        ELSE glob_middle_loop(after_suffix,
                              SubSeq(parts, 2, Len(parts) - 1))

\* IgnoreConfig::should_ignore_package
should_ignore_package(ignore, package_id) ==
    \E i \in 1..Len(ignore.packages) :
        LET pattern == ignore.packages[i]
        IN  IF contains_char(pattern, ASTERISK)
            THEN glob_match(pattern, package_id)
            ELSE pattern = package_id

\* ScanResult::new: the packages as given, nothing else found yet
ScanResult_new(packages) ==
    [packages |-> packages, vulnerabilities |-> << >>, outdated |-> << >>]

\* run_scan: all_packages is what the scanners found; with the two checks
\* switched off, or their services failing, the result stays as
\* ScanResult::new made it
run_scan(all_packages) ==
    ScanResult_new(all_packages)

\* run, for the scan command: the loaded configuration gives run_scan the
\* format and the two switches, and nothing else
run(config, all_packages) ==
    run_scan(all_packages)

(***************************************************************************)
(* src/cache.rs: the file cache.  files maps a file name of the cache       *)
(* directory to << >> (no such file) or <<file>>, now is the system clock   *)
(* in seconds.  The file system is taken to work: no read, write or        *)
(* removal fails.                                                          *)
(***************************************************************************)
SECS_PER_HOUR == 3600

JSON_EXT == <<".","j","s","o","n">>
QUOTE == "\""

\* char::is_alphanumeric, for ASCII
is_alphanumeric(c) == c \in IdentChars \ {"-"}

\* Cache::cache_path: the file name of a key
cache_path(key) ==
    [i \in 1..Len(key) |->
        IF is_alphanumeric(key[i]) \/ key[i] = "-" \/ key[i] = "_"
        THEN key[i] ELSE "_"] \o JSON_EXT

\* serde_json::to_string of a String without characters to escape
to_json(value) == <<QUOTE>> \o value \o <<QUOTE>>

\* serde_json::from_str::<String>().ok() of such a document
from_json(content) ==
    IF /\ Len(content) >= 2
       /\ content[1] = QUOTE
       /\ content[Len(content)] = QUOTE
       /\ \A i \in 2..(Len(content) - 1) : content[i] # QUOTE
    THEN <<SubSeq(content, 2, Len(content) - 1)>>
    ELSE << >>

\* Cache::with_ttl_hours
with_ttl_hours(hours) == [ttl |-> hours * SECS_PER_HOUR]

\* the file of Cache::get is out of date
cache_expired(cache, file, clock) == clock - file.modified > cache.ttl

(***************************************************************************)
(* src/checker/osv.rs: OsvChecker::check and batch_query.  The service is   *)
(* the environment: for the batch request of chunk c it fails or answers   *)
(* with a list of results, given to batch_query as response.               *)
(***************************************************************************)
BATCH_SIZE == 100

get_ecosystem(source) ==
    CASE source = "Npm" -> <<"npm">>
      [] source = "Homebrew" -> <<"Homebrew">>
      [] OTHER -> << >>

\* Iterator::find_map over a list of Options: the first Some, or None
RECURSIVE first_some(_)
first_some(options) ==
    IF options = << >> THEN << >>
    ELSE IF Head(options) # << >> THEN Head(options)
    ELSE first_some(Tail(options))

extract_fixed_version(vuln) ==
    IF vuln.affected = << >> THEN << >>
    ELSE first_some(
             [a \in 1..Len(vuln.affected[1]) |->
                 LET affected == vuln.affected[1][a]
                 IN  IF affected.ranges = << >> THEN << >>
                     ELSE first_some(
                              [r \in 1..Len(affected.ranges[1]) |->
                                  LET range == affected.ranges[1][r]
                                  IN  IF range.events = << >> THEN << >>
                                      ELSE first_some(
                                               [e \in 1..Len(range.events[1]) |->
                                                   range.events[1][e].fixed])])])

\* the queries of a chunk of <<index, package>> pairs
batch_queries(packages) ==
    LET supported == SelectSeq(packages,
                         LAMBDA p : get_ecosystem(p[2].source) # << >>)
    IN  [i \in 1..Len(supported) |->
            [package |-> [name |-> supported[i][2].id,
                          ecosystem |-> get_ecosystem(supported[i][2].source)[1]],
             version |-> supported[i][2].version]]

\* batch_results with the position in the response taken for the index of
\* the package
batch_results_by_position(packages, response_results) ==
    LET entries == [k \in 1..Len(response_results) |->
                       [i |-> k - 1, result |-> response_results[k]]]
        found == SelectSeq(entries,
                     LAMBDA e : /\ e.i < Len(packages)
                                /\ e.result.vulns # << >>
                                /\ e.result.vulns[1] # << >>)
    IN  [k \in 1..Len(found) |-> <<found[k].i, found[k].result.vulns[1]>>]

\* the results of the response that batch_query keeps: enumerate gives
\* each result its position i (counted from 0), filter_map keeps
\* <<index of the package at position i, vulns>> where there is such a
\* package and vulns is present and not empty
batch_results(packages, response_results) ==
    LET entries == [k \in 1..Len(response_results) |->
                       [i |-> k - 1, result |-> response_results[k]]]
        found == SelectSeq(entries,
                     LAMBDA e : /\ e.i < Len(packages)
                                /\ e.result.vulns # << >>
                                /\ e.result.vulns[1] # << >>)
    IN  [k \in 1..Len(found) |->
            <<packages[found[k].i + 1][1], found[k].result.vulns[1]>>]

\* batch_query: [ok |-> FALSE] (Err) or [ok |-> TRUE, value |-> results];
\* response is what the service does with the request: << >> (the request
\* fails) or <<batch_response>>
batch_query(packages, response) ==
    IF packages = << >> THEN [ok |-> TRUE, value |-> << >>]
    ELSE LET queries == batch_queries(packages)
         IN  IF queries = << >> THEN [ok |-> TRUE, value |-> << >>]
             ELSE IF response = << >> THEN [ok |-> FALSE]
             ELSE [ok |-> TRUE,
                   value |-> batch_results(packages, response[1].results)]

\* slice::chunks
RECURSIVE chunks(_, _)
chunks(seq, size) ==
    IF seq = << >> THEN << >>
    ELSE IF Len(seq) <= size THEN <<seq>>
    ELSE <<SubSeq(seq, 1, size)>>
             \o chunks(SubSeq(seq, size + 1, Len(seq)), size)

\* the Vulnerability made of a vulnerability of the response
make_vulnerability(package, vuln) ==
    [id |-> vuln.id,
     package_id |-> package.id,
     severity |-> parse_severity(vuln),
     title |-> IF vuln.summary # << >> THEN vuln.summary[1]
               ELSE "Unknown vulnerability",
     description |-> vuln.details,
     fixed_version |-> extract_fixed_version(vuln),
     reference_url |-> IF vuln.references = << >> THEN << >>
                       ELSE first_some([r \in 1..Len(vuln.references[1]) |->
                                           vuln.references[1][r].url])]

\* the loop of check over the results lo..hi of one batch: the
\* vulnerabilities of each result in turn, the range taken in two halves
RECURSIVE batch_vulnerabilities_range(_, _, _, _)
batch_vulnerabilities_range(all_packages, results, lo, hi) ==
    IF lo > hi THEN << >>
    ELSE IF lo = hi
    THEN LET pkg_idx == results[lo][1]
             vulns   == results[lo][2]
             package == all_packages[pkg_idx + 1]
         IN  [v \in 1..Len(vulns) |-> make_vulnerability(package, vulns[v])]
    ELSE LET mid == (lo + hi) \div 2
         IN  batch_vulnerabilities_range(all_packages, results, lo, mid)
             \o batch_vulnerabilities_range(all_packages, results, mid + 1, hi)

\* the loop of check over the results of one batch
batch_vulnerabilities(all_packages, results) ==
    batch_vulnerabilities_range(all_packages, results, 1, Len(results))

\* the loop of check over the chunks, from chunk c; responses[c] is what
\* the service does with the request of chunk c
RECURSIVE check_chunks(_, _, _, _)
check_chunks(all_packages, chunk_list, c, responses) ==
    IF c > Len(chunk_list) THEN << >>
    ELSE LET batch == batch_query(chunk_list[c], responses[c])
         IN  (IF batch.ok
              THEN batch_vulnerabilities(all_packages, batch.value)
              ELSE << >>)
             \o check_chunks(all_packages, chunk_list, c + 1, responses)

\* what check takes from the packages: <<index, package>> of the packages
\* with an ecosystem
checkable_packages(packages) ==
    SelectSeq([i \in 1..Len(packages) |-> <<i - 1, packages[i]>>],
              LAMBDA p : get_ecosystem(p[2].source) # << >>)

\* check giving up at the first batch that fails
check_stop_at_error(packages, responses) ==
    LET chunk_list == chunks(checkable_packages(packages), BATCH_SIZE)
        failed == { c \in 1..Len(chunk_list) :
                        ~batch_query(chunk_list[c], responses[c]).ok }
    IN  IF failed = {}
        THEN [ok |-> TRUE,
              value |-> check_chunks(packages, chunk_list, 1, responses)]
        ELSE [ok |-> FALSE]

\* OsvChecker::check: [ok |-> TRUE, value |-> vulnerabilities]
check(packages, responses) ==
    [ok |-> TRUE,
     value |-> check_chunks(packages,
                            chunks(checkable_packages(packages), BATCH_SIZE),
                            1, responses)]

(***************************************************************************)
(* main.rs: scan_concurrent and scan_sequential.  A scanner is a record of *)
(* what is_supported returns and what scan returns: [ok |-> FALSE] (Err)   *)
(* or [ok |-> TRUE, value |-> packages].  The progress bar is display only.*)
(***************************************************************************)
\* Result::unwrap_or_default of a Result<Vec<Package>>
unwrap_or_default(result) ==
    IF result.ok THEN result.value ELSE << >>

\* the future that scan_concurrent creates for one scanner
scan_future(scanner) ==
    IF scanner.is_supported
    THEN unwrap_or_default(scanner.scan)
    ELSE << >>

\* join_all with the output of a future put where the next output is
\* missing, that is in the order of completion
join_all_store_in_completion_order(results, i, output) ==
    LET k == CHOOSE j \in 1..Len(results) :
                 /\ results[j] = << >>
                 /\ \A h \in 1..(j - 1) : results[h] # << >>
    IN  [results EXCEPT ![k] = <<output>>]

\* join_all: the output of the future at position i is kept at position i
\* of the results, whenever the future completes; << >> is an output that
\* is not there yet
join_all_store(results, i, output) ==
    [results EXCEPT ![i] = <<output>>]

\* results.into_iter().flatten().collect()
RECURSIVE flatten(_)
flatten(results) ==
    IF results = << >> THEN << >>
    ELSE Head(results) \o flatten(Tail(results))

\* the loop of scan_sequential over the scanners
RECURSIVE scan_sequential_loop(_, _)
scan_sequential_loop(all_packages, scanners) ==
    IF scanners = << >> THEN all_packages
    ELSE LET scanner == Head(scanners)
         IN  IF ~scanner.is_supported
             THEN scan_sequential_loop(all_packages, Tail(scanners))
             ELSE IF scanner.scan.ok
             THEN scan_sequential_loop(all_packages \o scanner.scan.value,
                                       Tail(scanners))
             ELSE scan_sequential_loop(all_packages, Tail(scanners))

scan_sequential(scanners) ==
    scan_sequential_loop(<< >>, scanners)

(***************************************************************************)
(* main.rs: run_watch.  The state of the loop is prev_packages, prev_vulns *)
(* and first_run; an iteration scans, checks, prints its report and        *)
(* sleeps.  A report is the record of what the iteration printed: the      *)
(* counts of the initial summary (or << >>), whether "No changes detected" *)
(* was printed, and the keys listed under each of the four headings; a     *)
(* heading with no key is not printed.  A HashSet is a set.                *)
(***************************************************************************)
AT_SIGN == <<"@">>
SLASH == <<"/">>

\* the scan and the two checks of one iteration: check and check_outdated
\* are what the checkers return, [ok |-> FALSE] (Err) or
\* [ok |-> TRUE, value |-> found]
watch_scan(skip_vuln_check, skip_outdated_check, all_packages, check_result, check_outdated_result) ==
    LET r0 == ScanResult_new(all_packages)
        r1 == IF ~skip_vuln_check /\ r0.packages # << >> /\ check_result.ok
              THEN [r0 EXCEPT !.vulnerabilities = check_result.value]
              ELSE r0
    IN  IF /\ ~skip_outdated_check
           /\ r1.packages # << >>
           /\ check_outdated_result.ok
        THEN [r1 EXCEPT !.outdated = check_outdated_result.value]
        ELSE r1

\* curr_packages: format!("{}@{}", p.id, p.version) of every package
curr_packages(result) ==
    { result.packages[i].id \o AT_SIGN \o result.packages[i].version :
          i \in 1..Len(result.packages) }

\* curr_vulns: format!("{}/{}", v.package_id, v.id) of every vulnerability
curr_vulns(result) ==
    { result.vulnerabilities[i].package_id \o SLASH
          \o result.vulnerabilities[i].id :
          i \in 1..Len(result.vulnerabilities) }

NoKeys == {}

\* what an iteration prints between "Scanning..." and "Next scan in"
watch_report(first_run, result, prev_packages, prev_vulns) ==
    IF first_run
    THEN [summary |-> <<[packages |-> Len(result.packages),
                         vulnerabilities |-> Len(result.vulnerabilities),
                         outdated |-> Len(result.outdated)]>>,
          no_changes |-> FALSE,
          new_packages |-> NoKeys, removed_packages |-> NoKeys,
          new_vulns |-> NoKeys, resolved_vulns |-> NoKeys]
    ELSE LET new_packages     == curr_packages(result) \ prev_packages
             removed_packages == prev_packages \ curr_packages(result)
             new_vulns        == curr_vulns(result) \ prev_vulns
             resolved_vulns   == prev_vulns \ curr_vulns(result)
         IN  [summary |-> << >>,
              no_changes |-> /\ new_packages = {}
                             /\ removed_packages = {}
                             /\ new_vulns = {}
                             /\ resolved_vulns = {},
              new_packages |-> new_packages,
              removed_packages |-> removed_packages,
              new_vulns |-> new_vulns,
              resolved_vulns |-> resolved_vulns]

\* watch_iteration with prev_packages and prev_vulns set in the first
\* iteration only
watch_iteration_prev_of_first_run(st, result) ==
    [prev_packages |-> IF st.first_run THEN curr_packages(result)
                       ELSE st.prev_packages,
     prev_vulns |-> IF st.first_run THEN curr_vulns(result)
                    ELSE st.prev_vulns,
     first_run |-> FALSE,
     result |-> result,
     report |-> watch_report(st.first_run, result,
                             st.prev_packages, st.prev_vulns)]

\* one iteration of the loop, from the scan result in hand to the sleep:
\* the state of the loop after it, with the result and the report
watch_iteration(st, result) ==
    [prev_packages |-> curr_packages(result),
     prev_vulns |-> curr_vulns(result),
     first_run |-> FALSE,
     result |-> result,
     report |-> watch_report(st.first_run, result,
                             st.prev_packages, st.prev_vulns)]

(***************************************************************************)
(* Inputs.                                                                 *)
(***************************************************************************)
\* all sequences over S of length at most n
SeqsUpTo(S, n) == UNION {[1..k -> S] : k \in 0..n}

RECURSIVE join(_, _)
join(pieces, sep) ==
    IF pieces = << >> THEN << >>
    ELSE IF Len(pieces) = 1 THEN pieces[1]
    ELSE pieces[1] \o sep \o join(Tail(pieces), sep)

SP          == <<" ">>
SELF        == <<"'","s","e","l","f","'">>
IMG_SRC     == <<"i","m","g","-","s","r","c">>
HTTPS_A     == <<"h","t","t","p","s",":","/","/","a",".","c","o","m">>
HTTP_A_X    == <<"h","t","t","p",":","/","/","a",".","c","o","m","/","x">>
HTTPS_B_Y   == <<"h","t","t","p","s",":","/","/","b",".","c","o","m","/","y">>
HTTPS_C     == <<"h","t","t","p","s",":","/","/","c",".","c","o","m">>
HTTPS_STAR  == <<"h","t","t","p","s",":","/","/","*">>
WILD_B      == <<"*",".","b",".","c","o","m">>
A_COM       == <<"a",".","c","o","m">>
HTTPS_WILD_A_ALL == SCHEME_HTTPS \o <<"*",".","a",".","c","o","m","/","*">>
HTTPS_A_ALL == HTTPS_A \o <<"/","*">>

\* host patterns: the all-URLs forms, wildcard and plain domains, patterns
\* without a scheme, with file://, with two schemes, with blanks around
HostPatterns ==
    { ALL_URLS, ANY_SCHEME_ALL, HTTP_ALL, HTTPS_ALL,
      SP \o ALL_URLS \o SP,
      HTTPS_WILD_A_ALL,
      HTTPS_A_ALL,
      SCHEME_ANY \o <<"a",".","c","o","m","/","x">>,
      SCHEME_FILE \o <<"/","x">>,
      SCHEME_FILE \o <<"*",".","a",".","c","o","m","/">>,
      WILD_B,
      SP \o WILD_B \o SP,
      SCHEME_HTTP \o SCHEME_HTTPS \o WILD_B \o <<"/">>,
      SCHEME_ANY \o <<"*","/">>,
      <<"b",".","c","o","m">>,
      STAR }

HostLists == SeqsUpTo(HostPatterns, MaxHosts)

\* CSP directives: a CSP string is up to MaxDirectives of them joined by ';'
DirectiveSamples ==
    { << >>,
      SCRIPT_SRC,
      SCRIPT_SRC \o SP \o SELF \o SP \o UNSAFE_EVAL,
      SCRIPT_SRC \o SP \o UNSAFE_INLINE,
      SCRIPT_SRC \o SP \o HTTPS_A \o SP \o HTTPS_A,
      SCRIPT_SRC \o SP \o HTTPS_STAR,
      DEFAULT_SRC \o SP \o UNSAFE_INLINE \o SP \o UNSAFE_EVAL \o SP \o HTTP_A_X,
      CONNECT_SRC \o SP \o HTTPS_A \o SP \o WILD_B,
      SP \o CONNECT_SRC \o SP \o SP \o STAR \o SP \o HTTPS_B_Y \o SP,
      IMG_SRC \o SP \o HTTPS_C \o SP \o UNSAFE_EVAL }

CspInputs ==
    {<< >>} \cup
    { <<join(ds, <<";">>)>> : ds \in SeqsUpTo(DirectiveSamples, MaxDirectives) }

\* permission names: every name of the four tables and names of none
PermissionInputs ==
    { e[1] : e \in critical_permissions \cup high_permissions
                     \cup medium_permissions \cup low_permissions }
    \cup {"", "Tabs", "DEBUGGER", "storage ", "totally-unknown-xyz"}

\* the inputs of analyze_extension
PermissionSamples ==
    {"debugger", "tabs", "activeTab", "storage", "totally-unknown-xyz"}

\* optional permissions: a critical one, one whose half score is exact and
\* one whose half score is rounded down
OptionalPermissionSamples == {"debugger", "tabs", "storage"}

ExtHostSamples == {ALL_URLS, HTTPS_WILD_A_ALL, HTTPS_A_ALL}

ExtCspSamples ==
    { << >>,
      << << >> >>,
      <<SCRIPT_SRC \o SP \o SELF>>,
      <<SCRIPT_SRC \o SP \o SELF \o SP \o UNSAFE_EVAL>>,
      <<DEFAULT_SRC \o SP \o UNSAFE_INLINE \o SP \o UNSAFE_EVAL
          \o SP \o HTTP_A_X>> }

\* CVSS scores: every number of tenths between the two bounds written with
\* one decimal, other spellings of numbers, vector strings made of a prefix
\* and one value for each of C, I and A in either order, and other text
MaxScoreTenths == 105
MaxNegTenths == 12

\* t tenths written with one decimal: 98 as 9.8, -10 as -1.0
render_tenths(t) ==
    LET a == IF t < 0 THEN 0 - t ELSE t
    IN  (IF t < 0 THEN <<"-">> ELSE << >>)
          \o to_digits(a \div 10) \o <<".">> \o to_digits(a % 10)

ScoreTenths == (0 - MaxNegTenths)..MaxScoreTenths

NumberSpellings ==
    { <<"9">>,
      <<"1","0">>,
      <<"7">>,
      <<"4">>,
      <<"0">>,
      <<"8",".","9","9">>,
      <<"6",".","9","9","9">>,
      <<"3",".","9","9">>,
      <<"0",".","0","1">>,
      <<"-","0",".","0">>,
      <<"+","9",".","0">>,
      <<"9",".">>,
      <<".","5">>,
      <<".">>,
      <<>>,
      <<"1","e","1">>,
      <<"9","e","0">>,
      <<"9","0","e","-","1">>,
      <<"7","E","0">>,
      <<"1","e">>,
      <<"e","1">>,
      <<"i","n","f">>,
      <<"-","i","n","f">>,
      <<"I","n","f","i","n","i","t","y">>,
      <<"N","a","N">>,
      <<"n","a","n">>,
      <<"9",".","0",".","0">>,
      <<" ","9",".","0">>,
      <<"9",".","0"," ">>,
      <<"9",",","5">>,
      <<"0","x","9">>,
      <<"1","_","0">> }

VECTOR_PREFIX == <<"C","V","S","S",":","3",".","1","/","A","V",":","N">>
METRIC_C == <<"/","C",":">>
METRIC_I == <<"/","I",":">>
METRIC_A == <<"/","A",":">>
MetricValues == {"H", "L", "N"}

VectorScores ==
    { VECTOR_PREFIX \o METRIC_C \o <<c>> \o METRIC_I \o <<i>>
          \o METRIC_A \o <<a>> : c \in MetricValues, i \in MetricValues,
                                 a \in MetricValues }
    \cup { VECTOR_PREFIX \o METRIC_A \o <<a>> \o METRIC_C \o <<c>> :
               a \in MetricValues, c \in MetricValues }

OtherScores ==
    { <<"n","o","t"," ","a"," ","n","u","m","b","e","r">>,
      <<"C","V","S","S",":">>,
      <<"C","V","S","S",":","3",".","1","/","A","V",":","N","/","A","C",":","L","/","P","R",":","N","/","U","I",":","N","/","S",":","U","/","C",":","H","/","I",":","N","/","A",":","N">>,
      <<"C","V","S","S",":","3",".","1","/","A","V",":","L","/","A","C",":","H","/","P","R",":","L","/","U","I",":","R","/","S",":","U","/","C",":","L","/","I",":","N","/","A",":","N">>,
      <<"C","V","S","S",":","3",".","1","/","A","V",":","L","/","A","C",":","H","/","P","R",":","H","/","U","I",":","R","/","S",":","U","/","C",":","N","/","I",":","N","/","A",":","N">>,
      <<"A","V",":","N","/","C",":","H","/","I",":","H","/","A",":","H">>,
      <<"/","C",":","H">>,
      <<"c","v","s","s",":","3",".","1","/","C",":","H">>,
      <<"/","C",":","L","/","C","V","S","S",":">>,
      <<"/","A",":","H"," ","C","V","S","S",":">>,
      <<"C","V","S","S",":","3",".","1","/","C",":","h">>,
      <<"C","V","S","S",":","3",".","1","/","A","C",":","H","/","A","C",":","L">>,
      <<"C","V","S","S","/","C",":","H">>,
      <<"H","I","G","H">>,
      <<"C","V","S","S",":","9",".","8">> }

ScoreInputs ==
    { render_tenths(t) : t \in ScoreTenths }
        \cup NumberSpellings \cup VectorScores \cup OtherScores

\* severity entries of a vulnerability: without a score, or with one of
\* these scores; a vulnerability has no list or one of up to MaxSeverities
MaxSeverities == 3

SeverityEntrySamples ==
    { [score |-> << >>] }
    \cup { [score |-> <<sc>>] :
             sc \in { <<"9",".","8">>, <<"7",".","5">>, <<"0",".","0">>,
                      <<"b","a","d">>,
                      VECTOR_PREFIX \o METRIC_C \o <<"L">> } }

VulnInputs ==
    { [severity |-> << >>] }
    \cup { [severity |-> <<l>>] :
             l \in SeqsUpTo(SeverityEntrySamples, MaxSeverities) }

\* versions: semantic versions, releases and pre-releases, with and without
\* leading v or V, and strings that are no semantic versions
VersionSamples ==
    { <<"1",".","0",".","0">>,
      <<"2",".","0",".","0">>,
      <<"1",".","1",".","0">>,
      <<"1",".","0",".","1">>,
      <<"1","0",".","0",".","0">>,
      <<"9",".","0",".","0">>,
      <<"1",".","1","0",".","0">>,
      <<"1",".","9",".","0">>,
      <<"1",".","0",".","0","-","b","e","t","a">>,
      <<"1",".","0",".","0","-","a","l","p","h","a">>,
      <<"1",".","0",".","0","-","r","c",".","1">>,
      <<"1",".","0",".","0","-","b","e","t","a",".","1">>,
      <<"1",".","0",".","0","-","b","e","t","a",".","2">>,
      <<"1",".","0",".","0","-","b","e","t","a",".","1","1">>,
      <<"1",".","0",".","0","-","1">>,
      <<"1",".","0",".","0","-","b","e","t","a",".","x">>,
      <<"v","1",".","0",".","0">>,
      <<"V","1",".","0",".","0">>,
      <<"v","v","1",".","0",".","0">>,
      <<"v","2",".","0",".","0">>,
      <<"u","n","k","n","o","w","n">>,
      <<"2","0","2","4",".","0","1",".","1","5">>,
      <<"2","0","2","4",".","0","1",".","1","4">>,
      <<"s","a","m","e">>,
      <<"1",".","0">>,
      <<"v","1",".","0">>,
      <<>>,
      <<"0","1",".","0",".","0">>,
      <<"1",".","0",".","0","-">>,
      <<"1",".","0",".","0","-","0","1">>,
      <<"1",".","0",".","0",".","0">>,
      <<"1","8","4","4","6","7","4","4","0","7","3","7","0","9","5","5","1","6","1","6",".","0",".","0">>,
      <<"v">> }

\* versions for classify_update: with one, two and three components, with
\* leading v, and with components that are no u32
ClassifySamples ==
    { <<"1",".","0",".","0">>,
      <<"2",".","0",".","0">>,
      <<"1",".","1",".","0">>,
      <<"1",".","0",".","1">>,
      <<"1","0",".","0",".","0">>,
      <<"9",".","0",".","0">>,
      <<"v","1",".","2",".","0">>,
      <<"v","1",".","3",".","0">>,
      <<"v","v","2",".","0",".","0">>,
      <<"V","1",".","0",".","0">>,
      <<"1">>,
      <<"2">>,
      <<"1",".","x">>,
      <<"x",".","1">>,
      <<"x",".","2">>,
      <<"y",".","2">>,
      <<"u","n","k","n","o","w","n">>,
      <<>>,
      <<"1",".">>,
      <<"1",".","0","2">>,
      <<"+","1",".","5">>,
      <<"0","1",".","7">>,
      <<"4","2","9","4","9","6","7","2","9","6",".","0">>,
      <<"4","2","9","4","9","6","7","2","9","5",".","1">>,
      <<"3","0","0","0","0","0","0","0","0","0",".","0">>,
      <<"1",".","0",".","0","-","b","e","t","a">>,
      <<".","5">> }

\* scan results: with and without packages, with up to MaxVulns
\* vulnerabilities, listed from the most severe to the least (a deduction
\* does not depend on the position), and up to MaxOutdated outdated records
MaxVulns == 5
MaxOutdated == 2

SeverityOrder == <<"Critical", "High", "Medium", "Low", "Unknown">>

severity_index(sev) ==
    CHOOSE i \in 1..Len(SeverityOrder) : SeverityOrder[i] = sev

VulnerabilityLists ==
    { l \in SeqsUpTo({ [severity |-> sev] : sev \in Severity }, MaxVulns) :
          \A i \in 1..(Len(l) - 1) :
              severity_index(l[i].severity)
                  <= severity_index(l[i + 1].severity) }

OutdatedSamples ==
    { [current_version |-> <<"9",".","0",".","0">>,
       latest_version |-> <<"1","0",".","0",".","0">>],
      [current_version |-> <<"v","1",".","0",".","0">>,
       latest_version |-> <<"v","2",".","0",".","0">>],
      [current_version |-> <<"1",".","0",".","0">>,
       latest_version |-> <<"1",".","1",".","0">>],
      [current_version |-> <<"u","n","k","n","o","w","n">>,
       latest_version |-> <<"1",".","0",".","0">>] }

PackagesSamples == { << >>, <<[id |-> <<"l","o","d","a","s","h">>]>> }

ScanResults ==
    { [packages |-> p, vulnerabilities |-> v, outdated |-> o] :
          p \in PackagesSamples, v \in VulnerabilityLists,
          o \in SeqsUpTo(OutdatedSamples, MaxOutdated) }

\* scans for the HTML formatter: as ScanResults, with up to MaxHtmlVulns
\* vulnerabilities
MaxHtmlVulns == 2

HtmlScanResults ==
    { [packages |-> p, vulnerabilities |-> v, outdated |-> o] :
          p \in PackagesSamples,
          v \in { l \in VulnerabilityLists : Len(l) <= MaxHtmlVulns },
          o \in SeqsUpTo(OutdatedSamples, MaxOutdated) }

\* scans for determine_exit_code: every --fail-on setting, up to
\* MaxExitVulns vulnerabilities in any order, with or without an outdated
\* record
MaxExitVulns == 3

FailOnInputs == { << >> } \cup { <<level>> : level \in FailLevel }

ExitScanResults ==
    { [packages |-> <<[id |-> <<"l","o","d","a","s","h">>]>>,
       vulnerabilities |-> v, outdated |-> o] :
          v \in SeqsUpTo({ [severity |-> sev] : sev \in Severity },
                         MaxExitVulns),
          o \in SeqsUpTo({ [current_version |-> <<"9",".","0",".","0">>,
                           latest_version |-> <<"1","0",".","0",".","0">>] }, 1) }

\* configurations with up to MaxIgnore ignore entries, exact and glob, and
\* scans that find up to MaxPackages packages
MaxIgnore == 1
MaxPackages == 2

IgnorePatterns ==
    { <<"l","o","d","a","s","h">>,
      <<"l","o","d","a","s","h","*">>,
      <<"@","t","y","p","e","s","/","*">>,
      <<"*","-","e","s">>,
      <<"l","*","d","a","*","h">> }

PackageIds ==
    { <<"l","o","d","a","s","h">>,
      <<"l","o","d","a","s","h","-","e","s">>,
      <<"@","t","y","p","e","s","/","n","o","d","e">>,
      <<"e","x","p","r","e","s","s">> }

ConfigInputs ==
    { [ignore |-> [packages |-> p]] :
          p \in SeqsUpTo(IgnorePatterns, MaxIgnore) }

PackageLists ==
    SeqsUpTo({ [id |-> id] : id \in PackageIds }, MaxPackages)

\* the cache: TTLs of up to MaxTtlHours hours, a clock that runs for
\* MaxClockHours hours in steps of one hour, keys of which two have the
\* same file name, and two values
MaxTtlHours == 1
MaxClockHours == 3

CacheKeys == { <<"a",".","b">>, <<"a","_","b">> }

CacheValues == { <<"1",".","0">>, <<"2",".","0">> }

CacheFileNames == { cache_path(k) : k \in CacheKeys }

\* glob patterns of up to MaxPatternLen characters over two letters and
\* '*', and texts of up to MaxTextLen characters over the two letters
MaxPatternLen == 3
MaxTextLen == 3

GlobPatterns == SeqsUpTo({"a", "b", ASTERISK}, MaxPatternLen)

GlobTexts == SeqsUpTo({"a", "b"}, MaxTextLen)

\* the pattern lists scanned step by step
HostStepLists == SeqsUpTo(ExtHostSamples, MaxHosts)

\* the CSP strings analysed step by step
StepDirectiveSamples ==
    { << >>,
      SCRIPT_SRC \o SP \o SELF \o SP \o UNSAFE_EVAL,
      DEFAULT_SRC \o SP \o UNSAFE_INLINE \o SP \o UNSAFE_EVAL \o SP \o HTTP_A_X,
      CONNECT_SRC \o SP \o HTTPS_A \o SP \o WILD_B }

CspStepInputs ==
    {<< >>} \cup
    { <<join(ds, <<";">>)>> :
          ds \in SeqsUpTo(StepDirectiveSamples, MaxDirectives) }

\* package lists for check: enough packages for up to MaxChunks batches,
\* with the sources repeating one of a few cycles; package i has the id
\* pkg-i.  The service, for each batch, fails, answers every query, leaves
\* the last result out or adds one; the result at position i (from 0) of
\* its answer to batch c holds two vulnerabilities, none (absent), none
\* (empty) or one, as i modulo 4, with the ids OSV-c-i-j.
MaxChunks == 3

PackageCounts ==
    {0, 1} \cup { k * BATCH_SIZE : k \in 1..(MaxChunks - 1) }
           \cup { k * BATCH_SIZE + 1 : k \in 1..(MaxChunks - 1) }

SourceCycles ==
    { <<"Npm">>, <<"Chrome">>, <<"Npm", "Chrome">>,
      <<"Homebrew", "Vscode", "Npm", "Firefox", "Edge">> }

make_packages(n, cycle) ==
    [i \in 1..n |->
        [id |-> <<"pkg-", i>>,
         version |-> "1.0.0",
         source |-> cycle[((i - 1) % Len(cycle)) + 1]]]

BatchOutcomes == {"err", "exact", "short", "long"}

\* one outcome for each batch that the packages make
ServiceInputs(packages) ==
    [1..Len(chunks(checkable_packages(packages), BATCH_SIZE)) -> BatchOutcomes]

osv_vuln(c, i, j) ==
    [id |-> <<"OSV-", c, "-", i, "-", j>>,
     summary |-> IF j = 1 THEN <<"summary">> ELSE << >>,
     details |-> << >>,
     severity |-> IF j = 1 THEN <<<<[score |-> <<<<"9", ".", "8">>>>]>>>>
                  ELSE << >>,
     affected |-> IF j = 1
                  THEN <<<<[ranges |-> << >>],
                           [ranges |-> <<<<[events |->
                               <<<<[fixed |-> << >>],
                                   [fixed |-> <<"2.0.0">>]>>>>]>>>>]>>>>
                  ELSE << >>,
     references |-> IF j = 1 THEN <<<<[url |-> << >>], [url |-> <<"url">>]>>>>
                    ELSE << >>]

osv_result(c, i) ==
    [vulns |-> CASE i % 4 = 0 -> <<<<osv_vuln(c, i, 1), osv_vuln(c, i, 2)>>>>
                 [] i % 4 = 1 -> << >>
                 [] i % 4 = 2 -> << << >> >>
                 [] OTHER -> <<<<osv_vuln(c, i, 1)>>>>]

\* the length of the answer to a request of n queries
response_length(outcome, n) ==
    CASE outcome = "short" -> n - 1
      [] outcome = "long" -> n + 1
      [] OTHER -> n

\* what the service does with the request of batch c, of n queries
osv_response(outcome, c, n) ==
    IF outcome = "err" THEN << >>
    ELSE <<[results |-> [k \in 1..response_length(outcome, n) |->
                            osv_result(c, k - 1)]]>>

\* the number of queries of batch c of the packages
queries_of_batch(packages, c) ==
    LET chunk_list == chunks(checkable_packages(packages), BATCH_SIZE)
    IN  IF c <= Len(chunk_list) THEN Len(chunk_list[c]) ELSE 0

osv_responses(packages, outcomes) ==
    [c \in 1..Len(outcomes) |->
        osv_response(outcomes[c], c, queries_of_batch(packages, c))]

\* scanner lists: at each position a scanner that is not supported (and
\* would find packages), one whose scan fails, and one that finds two
\* packages; the packages name the position of their scanner
MaxScanners == 3

ScannerKinds == {"unsupported", "err", "two"}

scanner_package(i, k) ==
    [id |-> <<"pkg-", i, "-", k>>, version |-> "1.0.0", source |-> "Npm"]

make_scanner(kind, i) ==
    [is_supported |-> kind # "unsupported",
     scan |-> IF kind = "err" THEN [ok |-> FALSE]
              ELSE [ok |-> TRUE,
                    value |-> <<scanner_package(i, 1), scanner_package(i, 2)>>]]

ScannerLists ==
    { [i \in 1..Len(kinds) |-> make_scanner(kinds[i], i)] :
          kinds \in SeqsUpTo(ScannerKinds, MaxScanners) }

\* what the scanners of a watch find: up to MaxWatchPackages packages, each
\* one of two versions of one id; what the checkers answer
MaxWatchPackages == 2

WatchPackageSamples ==
    { [id |-> <<"a">>, version |-> <<"1">>, source |-> "Npm"],
      [id |-> <<"a">>, version |-> <<"2">>, source |-> "Npm"] }

WatchPackageLists == SeqsUpTo(WatchPackageSamples, MaxWatchPackages)

watch_vuln(package_id, id) ==
    [id |-> id, package_id |-> package_id, severity |-> "High"]

\* what the two checkers answer in one iteration
WatchCheckerAnswers ==
    { [check |-> [ok |-> FALSE],
       check_outdated |-> [ok |-> FALSE]],
      [check |-> [ok |-> TRUE, value |-> << >>],
       check_outdated |-> [ok |-> TRUE,
                           value |-> <<[package_id |-> <<"a">>,
                                        current_version |-> <<"1">>,
                                        latest_version |-> <<"2">>]>>]],
      [check |-> [ok |-> TRUE,
                  value |-> <<watch_vuln(<<"a">>, <<"V", "1">>)>>],
       check_outdated |-> [ok |-> FALSE]],
      [check |-> [ok |-> TRUE,
                  value |-> <<watch_vuln(<<"a">>, <<"V", "1">>),
                              watch_vuln(<<"a">>, <<"V", "2">>)>>],
       check_outdated |-> [ok |-> TRUE, value |-> << >>]] }

(***************************************************************************)
(* The state machine: a caller invokes one function of the module with     *)
(* some input and receives its result.  pc names the function called, args *)
(* holds its arguments and ret its return value.                           *)
(***************************************************************************)
NoValue == << >>

Init ==
    /\ pc = "idle"
    /\ args = NoValue
    /\ ret = NoValue
    /\ locals = NoValue
    /\ files = [f \in CacheFileNames |-> << >>]
    /\ now = 0
    /\ stored = [k \in CacheKeys |-> << >>]

CallGetPermissionRisk ==
    /\ pc = "idle"
    /\ \E permission \in PermissionInputs :
          /\ args' = [permission |-> permission]
          /\ ret' = get_permission_risk(permission)
    /\ pc' = "get_permission_risk"
    /\ UNCHANGED call_unchanged

CallAnalyzeHostPermissions ==
    /\ pc = "idle"
    /\ \E hosts \in HostLists :
          /\ args' = [hosts |-> hosts]
          /\ ret' = analyze_host_permissions(hosts)
    /\ pc' = "analyze_host_permissions"
    /\ UNCHANGED call_unchanged

CallAnalyzeCsp ==
    /\ pc = "idle"
    /\ \E csp \in CspInputs :
          /\ args' = [csp |-> csp]
          /\ ret' = analyze_csp(csp)
    /\ pc' = "analyze_csp"
    /\ UNCHANGED call_unchanged

CallAnalyzeExtension ==
    /\ pc = "idle"
    /\ \E permissions \in SeqsUpTo(PermissionSamples, MaxPermissions),
          optional_permissions \in SeqsUpTo(OptionalPermissionSamples, MaxOptional),
          host_permissions \in SeqsUpTo(ExtHostSamples, MaxExtHosts),
          csp \in ExtCspSamples :
          /\ args' = [permissions |-> permissions,
                      optional_permissions |-> optional_permissions,
                      host_permissions |-> host_permissions,
                      csp |-> csp]
          /\ ret' = analyze_extension(permissions, optional_permissions,
                                      host_permissions, csp)
    /\ pc' = "analyze_extension"
    /\ UNCHANGED call_unchanged

CallParseCvssScore ==
    /\ pc = "idle"
    /\ \E score \in ScoreInputs :
          /\ args' = [score |-> score]
          /\ ret' = parse_cvss_score(score)
    /\ pc' = "parse_cvss_score"
    /\ UNCHANGED call_unchanged

CallParseSeverity ==
    /\ pc = "idle"
    /\ \E vuln \in VulnInputs :
          /\ args' = [vuln |-> vuln]
          /\ ret' = parse_severity(vuln)
    /\ pc' = "parse_severity"
    /\ UNCHANGED call_unchanged

CallIsNewer ==
    /\ pc = "idle"
    /\ \E latest \in VersionSamples, current \in VersionSamples :
          /\ args' = [latest |-> latest, current |-> current]
          /\ ret' = is_newer(latest, current)
    /\ pc' = "is_newer"
    /\ UNCHANGED call_unchanged

CallClassifyUpdate ==
    /\ pc = "idle"
    /\ \E current \in ClassifySamples, latest \in ClassifySamples :
          /\ args' = [current |-> current, latest |-> latest]
          /\ ret' = classify_update(current, latest)
    /\ pc' = "classify_update"
    /\ UNCHANGED call_unchanged

CallCalculateHealthScore ==
    /\ pc = "idle"
    /\ \E result \in ScanResults :
          /\ args' = [result |-> result]
          /\ ret' = calculate_health_score(result)
    /\ pc' = "calculate_health_score"
    /\ UNCHANGED call_unchanged

\* the HTML formatter's calculate_health_score
CallHtmlCalculateHealthScore ==
    /\ pc = "idle"
    /\ \E result \in HtmlScanResults :
          /\ args' = [result |-> result]
          /\ ret' = html_calculate_health_score(result)
    /\ pc' = "html_calculate_health_score"
    /\ UNCHANGED call_unchanged

\* the HTML formatter's classify_update
CallHtmlClassifyUpdate ==
    /\ pc = "idle"
    /\ \E current \in ClassifySamples, latest \in ClassifySamples :
          /\ args' = [current |-> current, latest |-> latest]
          /\ ret' = html_classify_update(current, latest)
    /\ pc' = "html_classify_update"
    /\ UNCHANGED call_unchanged

CallDetermineExitCode ==
    /\ pc = "idle"
    /\ \E result \in ExitScanResults, fail_on \in FailOnInputs :
          /\ args' = [result |-> result, fail_on |-> fail_on]
          /\ ret' = determine_exit_code(result, fail_on)
    /\ pc' = "determine_exit_code"
    /\ UNCHANGED call_unchanged

CallRun ==
    /\ pc = "idle"
    /\ \E config \in ConfigInputs, all_packages \in PackageLists :
          /\ args' = [config |-> config, all_packages |-> all_packages]
          /\ ret' = run(config, all_packages)
    /\ pc' = "run"
    /\ UNCHANGED call_unchanged

CallGlobMatch ==
    /\ pc = "idle"
    /\ \E pattern \in GlobPatterns, text \in GlobTexts :
          /\ args' = [pattern |-> pattern, text |-> text]
          /\ ret' = glob_match(pattern, text)
    /\ pc' = "glob_match"
    /\ UNCHANGED call_unchanged

CallCheck ==
    /\ pc = "idle"
    /\ \E n \in PackageCounts, cycle \in SourceCycles :
       \E outcomes \in ServiceInputs(make_packages(n, cycle)) :
          /\ args' = [packages |-> make_packages(n, cycle),
                      outcomes |-> outcomes]
          /\ ret' = check(make_packages(n, cycle),
                          osv_responses(make_packages(n, cycle), outcomes))
    /\ pc' = "check"
    /\ UNCHANGED call_unchanged

\* analyze_host_permissions step by step: the call with its early return
\* for an empty list, one step for each pattern, and the return.  locals
\* holds scope, domains and the position i of the next pattern.
StartAnalyzeHostPermissions ==
    /\ pc = "idle"
    /\ \E hosts \in HostStepLists :
          /\ args' = [hosts |-> hosts]
          /\ IF hosts = << >>
             THEN /\ ret' = [scope |-> "None", domains |-> << >>]
                  /\ locals' = NoValue
                  /\ pc' = "analyze_host_permissions"
             ELSE /\ ret' = NoValue
                  /\ locals' = [scope |-> "Specific", domains |-> << >>,
                                i |-> 1]
                  /\ pc' = "host_loop"
    /\ UNCHANGED <<files, now, stored>>

HostLoopStep ==
    /\ pc = "host_loop"
    /\ locals.i <= Len(args.hosts)
    /\ LET st == host_loop_body(
                     [scope |-> locals.scope, domains |-> locals.domains],
                     args.hosts[locals.i])
       IN  locals' = [scope |-> st.scope, domains |-> st.domains,
                      i |-> locals.i + 1]
    /\ UNCHANGED <<pc, args, ret, files, now, stored>>

HostLoopReturn ==
    /\ pc = "host_loop"
    /\ locals.i > Len(args.hosts)
    /\ ret' = [scope |-> locals.scope, domains |-> locals.domains]
    /\ locals' = NoValue
    /\ pc' = "analyze_host_permissions"
    /\ UNCHANGED <<args, files, now, stored>>

\* analyze_csp step by step: the call with its early return for an absent
\* or empty CSP, one step for each directive, one for each value of a
\* script-src, default-src or connect-src directive, and the return with
\* the remote-script step.  locals holds analysis, the directives still to
\* come, and the name and the remaining values of the directive in hand.
StartAnalyzeCsp ==
    /\ pc = "idle"
    /\ \E csp \in CspStepInputs :
          /\ args' = [csp |-> csp]
          /\ IF csp = << >> \/ csp[1] = << >>
             THEN /\ ret' = [CspAnalysisDefault EXCEPT
                               !.issues = Append(@,
                                   <<"No Content Security Policy defined">>),
                               !.score = 30]
                  /\ locals' = NoValue
                  /\ pc' = "analyze_csp"
             ELSE /\ ret' = NoValue
                  /\ locals' = [analysis |->
                                    [CspAnalysisDefault EXCEPT !.has_csp = TRUE],
                                directives |-> split(csp[1], ";"),
                                name |-> << >>,
                                values |-> << >>]
                  /\ pc' = "csp_loop"
    /\ UNCHANGED <<files, now, stored>>

CspDirectiveStep ==
    /\ pc = "csp_loop"
    /\ locals.directives # << >>
    /\ LET directive == trim(Head(locals.directives))
           parts == split_whitespace(directive)
       IN  IF /\ directive # << >>
              /\ parts # << >>
              /\ parts[1] \in {SCRIPT_SRC, DEFAULT_SRC, CONNECT_SRC}
              /\ Tail(parts) # << >>
           THEN /\ locals' = [locals EXCEPT
                                !.directives = Tail(@),
                                !.name = parts[1],
                                !.values = Tail(parts)]
                /\ pc' = "csp_values"
           ELSE /\ locals' = [locals EXCEPT !.directives = Tail(@)]
                /\ pc' = "csp_loop"
    /\ UNCHANGED <<args, ret, files, now, stored>>

CspValueStep ==
    /\ pc = "csp_values"
    /\ locals' = [locals EXCEPT
                    !.analysis =
                        IF locals.name = CONNECT_SRC
                        THEN csp_connect_value(@, Head(locals.values))
                        ELSE csp_script_value(@, Head(locals.values)),
                    !.values = Tail(@)]
    /\ pc' = IF Tail(locals.values) = << >> THEN "csp_loop" ELSE "csp_values"
    /\ UNCHANGED <<args, ret, files, now, stored>>

CspReturn ==
    /\ pc = "csp_loop"
    /\ locals.directives = << >>
    /\ ret' = csp_remote_scripts(locals.analysis)
    /\ locals' = NoValue
    /\ pc' = "analyze_csp"
    /\ UNCHANGED <<args, files, now, stored>>

\* the pc values of a cache in use
CachePcs == {"cache", "cache_get", "cache_set", "cache_clear"}

\* Cache::with_ttl_hours: locals holds the Cache
CacheNew ==
    /\ pc = "idle"
    /\ \E hours \in 1..MaxTtlHours :
          /\ args' = [hours |-> hours]
          /\ locals' = with_ttl_hours(hours)
    /\ pc' = "cache"
    /\ ret' = NoValue
    /\ UNCHANGED <<files, now, stored>>

\* Cache::set; stored remembers the value and the time of the last set of
\* each key
CacheSet ==
    /\ pc \in CachePcs
    /\ \E key \in CacheKeys, value \in CacheValues :
          /\ args' = [key |-> key, value |-> value]
          /\ files' = [files EXCEPT ![cache_path(key)] =
                          <<[content |-> to_json(value), modified |-> now]>>]
          /\ stored' = [stored EXCEPT ![key] =
                           <<[value |-> value, at |-> now]>>]
    /\ ret' = "Ok"
    /\ pc' = "cache_set"
    /\ UNCHANGED <<locals, now>>

\* Cache::get
CacheGet ==
    /\ pc \in CachePcs
    /\ \E key \in CacheKeys :
          LET path == cache_path(key)
          IN  /\ args' = [key |-> key]
              /\ IF files[path] = << >>
                 THEN /\ ret' = << >>
                      /\ UNCHANGED files
                 ELSE IF cache_expired(locals, files[path][1], now)
                 THEN /\ ret' = << >>
                      /\ files' = [files EXCEPT ![path] = << >>]
                 ELSE /\ ret' = from_json(files[path][1].content)
                      /\ UNCHANGED files
    /\ pc' = "cache_get"
    /\ UNCHANGED <<locals, now, stored>>

\* Cache::clear: every file goes, and no key counts as stored any more
CacheClear ==
    /\ pc \in CachePcs
    /\ args' = NoValue
    /\ files' = [f \in CacheFileNames |-> << >>]
    /\ stored' = [k \in CacheKeys |-> << >>]
    /\ ret' = "Ok"
    /\ pc' = "cache_clear"
    /\ UNCHANGED <<locals, now>>

\* an hour passes
Tick ==
    /\ pc \in CachePcs
    /\ now < MaxClockHours * SECS_PER_HOUR
    /\ now' = now + SECS_PER_HOUR
    /\ UNCHANGED <<pc, args, ret, locals, files, stored>>

\* scan_sequential as one call
CallScanSequential ==
    /\ pc = "idle"
    /\ \E scanners \in ScannerLists :
          /\ args' = [scanners |-> scanners]
          /\ ret' = scan_sequential(scanners)
    /\ pc' = "scan_sequential"
    /\ UNCHANGED call_unchanged

\* scan_concurrent: the futures are created and join_all awaits them; one
\* step for each future that completes, in any order; then the results are
\* flattened and returned.  locals holds the results of join_all and the
\* positions of the scanners in the order in which their scans completed.
StartScanConcurrent ==
    /\ pc = "idle"
    /\ \E scanners \in ScannerLists :
          /\ args' = [scanners |-> scanners]
          /\ locals' = [results |-> [i \in 1..Len(scanners) |-> << >>],
                        completed |-> << >>]
    /\ ret' = NoValue
    /\ pc' = "join_all"
    /\ UNCHANGED <<files, now, stored>>

FutureCompletes ==
    /\ pc = "join_all"
    /\ \E i \in 1..Len(args.scanners) :
          /\ i \notin { locals.completed[k] : k \in 1..Len(locals.completed) }
          /\ locals' = [results |-> join_all_store(locals.results, i,
                                        scan_future(args.scanners[i])),
                        completed |-> Append(locals.completed, i)]
    /\ UNCHANGED <<pc, args, ret, files, now, stored>>

ScanConcurrentReturn ==
    /\ pc = "join_all"
    /\ Len(locals.completed) = Len(args.scanners)
    /\ ret' = flatten([i \in 1..Len(locals.results) |-> locals.results[i][1]])
    /\ pc' = "scan_concurrent"
    /\ UNCHANGED <<args, locals, files, now, stored>>

\* the caller takes the result of scan_concurrent
ScanConcurrentTaken ==
    /\ pc = "scan_concurrent"
    /\ pc' = "idle"
    /\ args' = NoValue
    /\ ret' = NoValue
    /\ locals' = NoValue
    /\ UNCHANGED <<files, now, stored>>

\* run_watch up to the loop: locals holds prev_packages, prev_vulns and
\* first_run, and, once an iteration has run, its result and its report
StartRunWatch ==
    /\ pc = "idle"
    /\ \E skip_vuln_check \in BOOLEAN, skip_outdated_check \in BOOLEAN :
          args' = [skip_vuln_check |-> skip_vuln_check,
                   skip_outdated_check |-> skip_outdated_check]
    /\ locals' = [prev_packages |-> {}, prev_vulns |-> {},
                  first_run |-> TRUE,
                  result |-> ScanResult_new(<< >>),
                  report |-> << >>]
    /\ ret' = NoValue
    /\ pc' = "run_watch"
    /\ UNCHANGED <<files, now, stored>>

\* one iteration of the loop of run_watch
WatchIteration ==
    /\ pc = "run_watch"
    /\ \E all_packages \in WatchPackageLists,
          answers \in WatchCheckerAnswers :
          locals' = watch_iteration(
                        locals,
                        watch_scan(args.skip_vuln_check,
                                   args.skip_outdated_check, all_packages,
                                   answers.check, answers.check_outdated))
    /\ UNCHANGED <<pc, args, ret, files, now, stored>>

\* the caller takes the result; the arguments and the result are dropped
Return ==
    /\ pc # "idle"
    /\ pc \notin CachePcs
    /\ locals = NoValue
    /\ pc' = "idle"
    /\ UNCHANGED call_unchanged
    /\ args' = NoValue
    /\ ret' = NoValue

Next ==
    \/ CallGetPermissionRisk
    \/ CallAnalyzeHostPermissions
    \/ CallAnalyzeCsp
    \/ CallAnalyzeExtension
    \/ CallParseCvssScore
    \/ CallParseSeverity
    \/ CallIsNewer
    \/ CallClassifyUpdate
    \/ CallCalculateHealthScore
    \/ CallHtmlCalculateHealthScore
    \/ CallHtmlClassifyUpdate
    \/ CallDetermineExitCode
    \/ CallRun
    \/ CallGlobMatch
    \/ CallCheck
    \/ StartAnalyzeHostPermissions
    \/ HostLoopStep
    \/ HostLoopReturn
    \/ StartAnalyzeCsp
    \/ CspDirectiveStep
    \/ CspValueStep
    \/ CspReturn
    \/ CacheNew
    \/ CacheSet
    \/ CacheGet
    \/ CacheClear
    \/ Tick
    \/ CallScanSequential
    \/ StartScanConcurrent
    \/ FutureCompletes
    \/ ScanConcurrentReturn
    \/ ScanConcurrentTaken
    \/ StartRunWatch
    \/ WatchIteration
    \/ Return

Spec == Init /\ [][Next]_vars

(***************************************************************************)
(* Properties of analyze_extension.                                        *)
(***************************************************************************)
InAnalyzeExtension == pc = "analyze_extension"

RECURSIVE SumSeq(_)
SumSeq(xs) == IF xs = << >> THEN 0 ELSE Head(xs) + SumSeq(Tail(xs))

\* the score of the level the catalog gives each name of a list
LookupScores(names) ==
    [i \in 1..Len(names) |-> level_score(get_permission_risk(names[i]).level)]

RequiredOnly ==
    /\ InAnalyzeExtension
    /\ args.optional_permissions = << >>
    /\ args.host_permissions = << >>
    /\ args.csp = << >>

\* C1 (as stated): with no optional permissions, no host permissions and
\* an absent CSP, total_score equals the sum of the level scores of the
\* required permissions.
C1_TotalIsSumOfRequired ==
    RequiredOnly => ret.total_score = SumSeq(LookupScores(args.permissions))

\* C1 (amended): with no optional permissions, no host permissions and an
\* absent CSP, total_score equals the sum of the level scores of the
\* required permissions plus 30, the score analyze_csp gives an absent CSP.
C1_TotalIsSumOfRequiredPlusAbsentCsp ==
    RequiredOnly =>
        ret.total_score = SumSeq(LookupScores(args.permissions)) + 30

C1_Witness ==
    /\ RequiredOnly
    /\ args.permissions = <<"debugger", "tabs">>
    /\ ret.total_score = 180

\* the scores the claim C2 lists
C2_LevelScore(level) ==
    CASE level = "None"     -> 0
      [] level = "Low"      -> 5
      [] level = "Medium"   -> 20
      [] level = "High"     -> 50
      [] level = "Critical" -> 100

C2_ScopeScore(scope) ==
    CASE scope = "None"     -> 0
      [] scope = "Specific" -> 5
      [] scope = "Broad"    -> 30
      [] scope = "AllUrls"  -> 80

\* C2: total_score is the sum over the required permissions of the level
\* score, plus the sum over the optional permissions of half the level
\* score rounded down, plus the score of the host scope, plus the CSP
\* score; an optional Low permission adds 2 and an optional High one 25.
C2_TotalScoreFormula ==
    InAnalyzeExtension =>
        LET R == args.permissions
            O == args.optional_permissions
            required == [i \in 1..Len(R) |->
                            C2_LevelScore(get_permission_risk(R[i]).level)]
            optional == [i \in 1..Len(O) |->
                            C2_LevelScore(get_permission_risk(O[i]).level)
                                \div 2]
        IN  /\ ret.total_score =
                   SumSeq(required) + SumSeq(optional)
                   + C2_ScopeScore(
                         analyze_host_permissions(args.host_permissions).scope)
                   + analyze_csp(args.csp).score
            /\ \A i \in 1..Len(O) :
                  /\ get_permission_risk(O[i]).level = "Low"
                        => optional[i] = 2
                  /\ get_permission_risk(O[i]).level = "High"
                        => optional[i] = 25

C2_Witness ==
    /\ InAnalyzeExtension
    /\ args.permissions = <<"storage">>
    /\ args.optional_permissions = <<"tabs">>
    /\ args.host_permissions = <<HTTPS_WILD_A_ALL>>
    /\ args.csp = <<SCRIPT_SRC \o SP \o SELF \o SP \o UNSAFE_EVAL>>
    /\ ret.total_score = 5 + 25 + 30 + 40

C3_Rank(level) ==
    CASE level = <<"low">>      -> 0
      [] level = <<"medium">>   -> 1
      [] level = <<"high">>     -> 2
      [] level = <<"critical">> -> 3

\* C3: risk_level is fixed by the final total_score: "low" iff 0..20,
\* "medium" iff 21..100, "high" iff 101..300, "critical" iff 301 and more;
\* it is no other string, and no lower score has a higher risk level.
C3_RiskLevelBuckets ==
    InAnalyzeExtension =>
        LET s == ret.total_score
            l == ret.risk_level
        IN  /\ s >= 0
            /\ l \in {<<"low">>, <<"medium">>, <<"high">>, <<"critical">>}
            /\ l = <<"low">>      <=> (0 <= s /\ s <= 20)
            /\ l = <<"medium">>   <=> (21 <= s /\ s <= 100)
            /\ l = <<"high">>     <=> (101 <= s /\ s <= 300)
            /\ l = <<"critical">> <=> s >= 301
            /\ \A t \in 0..s : C3_Rank(risk_level_of(t)) <= C3_Rank(l)

C3_Witness ==
    /\ InAnalyzeExtension
    /\ ret.total_score = 100
    /\ ret.risk_level = <<"medium">>

\* the number of Critical names in a list, by the catalog
CriticalNames(names) ==
    Cardinality({i \in 1..Len(names) :
                    get_permission_risk(names[i]).level = "Critical"})

\* C4: the issues are, in this order, "All URLs access" (Critical) iff the
\* host scope is AllUrls, "{count} critical permission(s)" (Critical) iff
\* the count of Critical entries of report.permissions, required and
\* optional alike, is positive, and "Allows eval()" (High) iff the CSP
\* allows unsafe-eval; each is present independently of the others, so
\* there are at most 3 issues and no other one.
C4_IssuesInFixedOrder ==
    InAnalyzeExtension =>
        LET count == Cardinality({i \in 1..Len(ret.permissions) :
                                     ret.permissions[i].level = "Critical"})
            expected ==
                (IF ret.host_permission_scope = "AllUrls"
                 THEN << <<"Critical", <<"All URLs access">> >> >>
                 ELSE << >>)
                \o (IF count > 0
                    THEN << <<"Critical",
                              <<ToString(count), " critical permission(s)">> >> >>
                    ELSE << >>)
                \o (IF ret.csp.allows_unsafe_eval
                    THEN << <<"High", <<"Allows eval()">> >> >>
                    ELSE << >>)
        IN  /\ [i \in 1..Len(ret.issues) |->
                   <<ret.issues[i].severity, ret.issues[i].title>>] = expected
            /\ Len(ret.issues) <= 3
            /\ count = CriticalNames(args.permissions)
                       + CriticalNames(args.optional_permissions)

C4_Witness ==
    /\ InAnalyzeExtension
    /\ Len(ret.issues) = 3
    /\ ret.issues[2].title = <<"2", " critical permission(s)">>
    /\ args.optional_permissions = <<"debugger">>

(***************************************************************************)
(* Properties of analyze_host_permissions.                                 *)
(***************************************************************************)
InAnalyzeHostPermissions == pc = "analyze_host_permissions"

\* the list with the elements at i and i + 1 exchanged
SwapAdjacent(xs, i) ==
    [k \in 1..Len(xs) |->
        IF k = i THEN xs[i + 1] ELSE IF k = i + 1 THEN xs[i] ELSE xs[k]]

\* C5: the scope is None iff the list is empty; otherwise AllUrls iff some
\* trimmed pattern is one of the four all-URLs forms; otherwise Broad iff
\* the domain segment of some pattern starts with "*." or is "*";
\* otherwise Specific.  The scope does not depend on the order of the
\* patterns (exchanging two neighbours never changes it).
C5_ScopeClassification ==
    InAnalyzeHostPermissions =>
        LET H == args.hosts
            all_urls == \E i \in 1..Len(H) :
                            trim(H[i]) \in {ALL_URLS, ANY_SCHEME_ALL,
                                            HTTP_ALL, HTTPS_ALL}
            broad == \E i \in 1..Len(H) :
                        LET segment == host_domain_part(trim(H[i]))
                        IN  starts_with(segment, WILD_DOT) \/ segment = STAR
        IN  /\ ret.scope = "None" <=> H = << >>
            /\ H # << >> =>
                  /\ ret.scope = "AllUrls" <=> all_urls
                  /\ ~all_urls => (ret.scope = "Broad" <=> broad)
                  /\ (~all_urls /\ ~broad) => ret.scope = "Specific"
            /\ \A i \in 1..(Len(H) - 1) :
                  analyze_host_permissions(SwapAdjacent(H, i)).scope
                      = ret.scope

C5_Witness ==
    /\ InAnalyzeHostPermissions
    /\ args.hosts = <<ALL_URLS, WILD_B, HTTPS_A_ALL>>
    /\ ret.scope = "AllUrls"

\* C6: for the list whose only pattern is <all_urls> the result is
\* (AllUrls, no domain).
C6_AllUrlsContributesNoDomain ==
    (InAnalyzeHostPermissions /\ args.hosts = <<ALL_URLS>>) =>
        ret = [scope |-> "AllUrls", domains |-> << >>]

InAnalyzeCsp == pc = "analyze_csp"

\* the positions <<directive, word>> of the values of the script-src and
\* default-src directives of a CSP string
ScriptValuePositions(csp) ==
    LET ds == split(csp, ";")
    IN  UNION { {<<i, j>> : j \in 2..Len(split_whitespace(ds[i]))} :
                  i \in {k \in 1..Len(ds) :
                            /\ split_whitespace(ds[k]) # << >>
                            /\ split_whitespace(ds[k])[1]
                                   \in {SCRIPT_SRC, DEFAULT_SRC}} }

ValueAt(csp, pos) == split_whitespace(split(csp, ";")[pos[1]])[pos[2]]

\* C8: an absent or empty CSP gives score 30, has_csp false and the single
\* issue "No Content Security Policy defined"; otherwise has_csp is true
\* and the score is 40 per 'unsafe-eval' value and 30 per 'unsafe-inline'
\* value of the script-src and default-src directives, plus 10 times the
\* final length of allowed_domains if some such value starts with http://
\* or https://; nothing clamps it.
C8_CspScore ==
    InAnalyzeCsp =>
        IF args.csp = << >> \/ args.csp = << << >> >>
        THEN /\ ret.score = 30
             /\ ret.has_csp = FALSE
             /\ ret.issues = << <<"No Content Security Policy defined">> >>
        ELSE LET csp == args.csp[1]
                 positions == ScriptValuePositions(csp)
                 evals == Cardinality({pos \in positions :
                              ValueAt(csp, pos) = UNSAFE_EVAL})
                 inlines == Cardinality({pos \in positions :
                              ValueAt(csp, pos) = UNSAFE_INLINE})
                 remote == \E pos \in positions :
                              \/ starts_with(ValueAt(csp, pos), SCHEME_HTTP)
                              \/ starts_with(ValueAt(csp, pos), SCHEME_HTTPS)
             IN  /\ ret.has_csp = TRUE
                 /\ ret.score = 40 * evals + 30 * inlines
                                + (IF remote
                                   THEN 10 * Len(ret.allowed_domains)
                                   ELSE 0)

C8_Witness ==
    /\ InAnalyzeCsp
    /\ args.csp = <<join(<<SCRIPT_SRC \o SP \o SELF \o SP \o UNSAFE_EVAL,
                           DEFAULT_SRC \o SP \o UNSAFE_INLINE \o SP
                               \o UNSAFE_EVAL \o SP \o HTTP_A_X,
                           CONNECT_SRC \o SP \o HTTPS_A \o SP \o WILD_B>>,
                         <<";">>)>>
    /\ ret.allowed_domains = <<A_COM, WILD_B>>
    /\ ret.score = 80 + 30 + 20

\* C9: no domain appears twice in allowed_domains.
C9_AllowedDomainsDistinct ==
    InAnalyzeCsp =>
        \A k, l \in 1..Len(ret.allowed_domains) :
            k # l => ret.allowed_domains[k] # ret.allowed_domains[l]

(***************************************************************************)
(* Properties of get_permission_risk.                                      *)
(***************************************************************************)
InGetPermissionRisk == pc = "get_permission_risk"

Names(table) == {e[1] : e \in table}

\* the result has the level and the entry of the name in the table
FromTable(table, level) ==
    /\ ret.level = level
    /\ \E e \in table :
          /\ e[1] = args.permission
          /\ ret.description = <<e[2]>>
          /\ ret.warning = <<e[3]>>

\* C10: get_permission_risk answers every name: a name of the Critical
\* table is Critical, else of the High table High, else of the Medium
\* table Medium, else of the Low table Low, each with the description and
\* Some(warning) of its entry; any other name, the empty one and names in
\* another case included, is Low with description "Unknown permission:
\* {name}" and no warning.  The returned name is the input.
C10_PermissionClassification ==
    InGetPermissionRisk =>
        LET name == args.permission
        IN  /\ ret.name = <<name>>
            /\ IF name \in Names(critical_permissions)
               THEN FromTable(critical_permissions, "Critical")
               ELSE IF name \in Names(high_permissions)
               THEN FromTable(high_permissions, "High")
               ELSE IF name \in Names(medium_permissions)
               THEN FromTable(medium_permissions, "Medium")
               ELSE IF name \in Names(low_permissions)
               THEN FromTable(low_permissions, "Low")
               ELSE /\ ret.level = "Low"
                    /\ ret.description = <<"Unknown permission: ", name>>
                    /\ ret.warning = << >>
            /\ name = "debugger" => ret.level = "Critical"
            /\ name = "tabs" => ret.level = "High"
            /\ name = "activeTab" => ret.level = "Medium"
            /\ name = "storage" => ret.level = "Low"
            /\ name \in {"", "Tabs", "DEBUGGER"} => ret.warning = << >>

C10_Witness ==
    /\ InGetPermissionRisk
    /\ args.permission = "Tabs"
    /\ ret.level = "Low"
    /\ ret.warning = << >>


(***************************************************************************)
(* Claims about parse_cvss_score and parse_severity.                       *)
(***************************************************************************)
InParseCvssScore == pc = "parse_cvss_score"

\* the severity of a score of t tenths
SeverityOfTenths(t) ==
    IF t >= 90 THEN "Critical"
    ELSE IF t >= 70 THEN "High"
    ELSE IF t >= 40 THEN "Medium"
    ELSE IF t > 0 THEN "Low"
    ELSE "Unknown"

\* C11: a score string that parses as a number x gives Critical iff
\* x >= 9.0, High iff 7.0 <= x < 9.0, Medium iff 4.0 <= x < 7.0, Low iff
\* 0.0 < x < 4.0 and Unknown iff x <= 0.0: 9.0, 7.0 and 4.0 belong to the
\* higher severity and 0.0 to Unknown.
C11_NumericScoreSeverity ==
    InParseCvssScore =>
        \A t \in ScoreTenths :
            args.score = render_tenths(t) =>
                /\ parse_f32(args.score) # << >>
                /\ ret = SeverityOfTenths(t)
                /\ ret = "Critical" <=> t >= 90
                /\ ret = "High" <=> (70 <= t /\ t < 90)
                /\ ret = "Medium" <=> (40 <= t /\ t < 70)
                /\ ret = "Low" <=> (0 < t /\ t < 40)
                /\ ret = "Unknown" <=> t <= 0

\* the boundary score 9.0 has been classified
C11_Witness ==
    /\ InParseCvssScore
    /\ args.score = <<"9", ".", "0">>
    /\ ret = "Critical"


HighMarkers == {C_HIGH, I_HIGH, A_HIGH}
LowMarkers == {C_LOW, I_LOW, A_LOW}

\* C12: for a score string that does not parse as a number: with "CVSS:"
\* in it the result is High if it contains one of /C:H, /I:H, /A:H,
\* otherwise Medium if it contains one of /C:L, /I:L, /A:L, otherwise Low,
\* so a High marker wins over a Low one wherever they stand and a vector
\* is never Critical or Unknown; without "CVSS:" the result is Unknown.
C12_VectorSeverity ==
    (InParseCvssScore /\ parse_f32(args.score) = << >>) =>
        LET isVector == contains_str(args.score, CVSS_COLON)
            hasHigh  == \E m \in HighMarkers : contains_str(args.score, m)
            hasLow   == \E m \in LowMarkers : contains_str(args.score, m)
        IN  /\ ~isVector => ret = "Unknown"
            /\ isVector => ret \in {"High", "Medium", "Low"}
            /\ (isVector /\ hasHigh) => ret = "High"
            /\ (isVector /\ ~hasHigh /\ hasLow) => ret = "Medium"
            /\ (isVector /\ ~hasHigh /\ ~hasLow) => ret = "Low"
            /\ \A c \in MetricValues, i \in MetricValues, a \in MetricValues :
                   args.score = VECTOR_PREFIX \o METRIC_C \o <<c>>
                                    \o METRIC_I \o <<i>> \o METRIC_A \o <<a>>
                   => ret = IF "H" \in {c, i, a} THEN "High"
                            ELSE IF "L" \in {c, i, a} THEN "Medium"
                            ELSE "Low"

\* a vector with a Low marker before a High marker has been classified
C12_Witness ==
    /\ InParseCvssScore
    /\ args.score = VECTOR_PREFIX \o METRIC_C \o <<"L">>
                        \o METRIC_I \o <<"N">> \o METRIC_A \o <<"H">>
    /\ ret = "High"

InParseSeverity == pc = "parse_severity"

\* the entries of the vulnerability of the call, none for an absent list
SeverityEntries ==
    IF args.vuln.severity = << >> THEN << >> ELSE args.vuln.severity[1]

\* the class of the entry at position i, Unknown without a score
EntryClass(i) ==
    IF SeverityEntries[i].score = << >> THEN "Unknown"
    ELSE parse_cvss_score(SeverityEntries[i].score[1])

\* C13: the severity of a vulnerability is the class of the first entry,
\* in input order, whose score classifies to something other than Unknown,
\* entries without a score being skipped; it is Unknown iff the list is
\* absent, empty or every entry classifies to Unknown.  A later higher
\* severity never overrides an earlier non-Unknown one.
C13_FirstNonUnknownSeverity ==
    InParseSeverity =>
        LET known == { i \in 1..Len(SeverityEntries) :
                           EntryClass(i) # "Unknown" }
        IN  /\ ret = "Unknown" <=> known = {}
            /\ \A i \in known :
                   (\A j \in known : i <= j) => ret = EntryClass(i)

\* a Medium entry stands before a Critical one, after an entry without a
\* score and one that classifies to Unknown
C13_Witness ==
    /\ InParseSeverity
    /\ Len(SeverityEntries) = 3
    /\ SeverityEntries[1].score # << >>
    /\ EntryClass(1) = "Unknown"
    /\ EntryClass(2) = "Medium"
    /\ EntryClass(3) = "Critical"
    /\ ret = "Medium"


(***************************************************************************)
(* Claims about is_newer.                                                  *)
(***************************************************************************)
InIsNewer == pc = "is_newer"

\* s without one leading v or V
StripOneV(s) ==
    IF s # << >> /\ s[1] \in {"v", "V"} THEN Tail(s) ELSE s

\* the comparison of is_newer applied to two strings as they are
CompareAsGiven(latest, current) ==
    IF semver_parse(latest) # << >> /\ semver_parse(current) # << >>
    THEN version_cmp(semver_parse(latest)[1], semver_parse(current)[1]) = 1
    ELSE IF current = UNKNOWN THEN FALSE
    ELSE latest # current

\* C14: is_newer(a, b) is the result of the comparison applied to a and b
\* with at most one leading v or V removed from each, so
\* is_newer("V1.0.0", "1.0.0") and is_newer("v1.0.0", "1.0.0") are false and
\* a second leading v is not removed.
C14_StripsOneLeadingV ==
    InIsNewer =>
        ret = CompareAsGiven(StripOneV(args.latest), StripOneV(args.current))

SemverArgs ==
    /\ InIsNewer
    /\ semver_parse(args.latest) # << >>
    /\ semver_parse(args.current) # << >>

\* the three numbers of a parsed version
Triple(v) == <<v.major, v.minor, v.patch>>

\* triple a is above triple b, number by number
TripleAbove(a, b) ==
    \E i \in 1..3 : a[i] > b[i] /\ \A j \in 1..(i - 1) : a[j] = b[j]

\* C15: when both arguments parse as semantic versions, is_newer(latest,
\* current) is true iff latest is above current in semver precedence:
\* major, minor and patch compared as numbers, and a pre-release below the
\* release with the same three numbers.  On such inputs is_newer(x, x) is
\* false and is_newer(a, b) and is_newer(b, a) are never both true.
C15_SemverPrecedence ==
    SemverArgs =>
        LET l == semver_parse(args.latest)[1]
            c == semver_parse(args.current)[1]
        IN  /\ ret \in BOOLEAN
            /\ ret <=> version_cmp(l, c) = 1
            /\ Triple(l) # Triple(c) => (ret <=> TripleAbove(Triple(l), Triple(c)))
            /\ (Triple(l) = Triple(c) /\ c.pre = << >>) => ~ret
            /\ (Triple(l) = Triple(c) /\ l.pre = << >> /\ c.pre # << >>) => ret
            /\ args.latest = args.current => ~ret
            /\ ret => ~is_newer(args.current, args.latest)
            /\ l # c => (ret \/ is_newer(args.current, args.latest))

\* 10.0.0 has been compared with 9.0.0
C15_Witness ==
    /\ SemverArgs
    /\ semver_parse(args.latest)[1].major = 10
    /\ semver_parse(args.current)[1].major = 9
    /\ ret = TRUE

InCalculateHealthScore == pc = "calculate_health_score"

\* the number of positions of a list that satisfy a test
CountWhere(l, Test(_)) == Cardinality({ i \in 1..Len(l) : Test(l[i]) })

\* the leading '.'-separated component of a version without its leading v
LeadingComponent(version) ==
    split(trim_start_matches(version, LOWER_V), DOT)[1]

\* both leading components are unsigned integers and latest's is the greater
MajorExceeds(o) ==
    LET cm == parse_u32(LeadingComponent(o.current_version))
        lm == parse_u32(LeadingComponent(o.latest_version))
    IN  cm # << >> /\ lm # << >> /\ u32_gt(lm[1], cm[1])

\* the sum D of the deductions of a scan result
Deductions(result) ==
    LET n(sev) == CountWhere(result.vulnerabilities,
                             LAMBDA v : v.severity = sev)
        majors == CountWhere(result.outdated, MajorExceeds)
    IN  25 * n("Critical") + 15 * n("High") + 8 * n("Medium")
          + 3 * n("Low") + 5 * n("Unknown")
          + 5 * majors + 2 * (Len(result.outdated) - majors)

\* C17: calculate_health_score returns 100 when the scan has no packages,
\* whatever vulnerabilities or outdated records it holds; otherwise it
\* returns 100 - D clamped to 0..100, where D is 25 per Critical, 15 per
\* High, 8 per Medium, 3 per Low and 5 per Unknown vulnerability, 5 per
\* outdated record whose latest leading number exceeds current's and 2 per
\* other outdated record.  The result is always in 0..100.
C17_HealthScore ==
    InCalculateHealthScore =>
        LET d == Deductions(args.result)
        IN  /\ ret \in 0..100
            /\ args.result.packages = << >> => ret = 100
            /\ args.result.packages # << >> =>
                   ret = IF 100 - d < 0 THEN 0 ELSE 100 - d

\* a scan with packages whose deductions exceed 100, a major update with a
\* leading v among them
C17_Witness ==
    /\ InCalculateHealthScore
    /\ args.result.packages # << >>
    /\ Deductions(args.result) > 100
    /\ \E i \in 1..Len(args.result.outdated) :
           /\ MajorExceeds(args.result.outdated[i])
           /\ args.result.outdated[i].current_version[1] = "v"
    /\ ret = 0

InClassifyUpdate == pc = "classify_update"

\* the second '.'-separated component of a version, none if there is none
SecondComponent(version) ==
    LET parts == split(trim_start_matches(version, LOWER_V), DOT)
    IN  IF Len(parts) >= 2 THEN parse_u32(parts[2]) ELSE << >>

\* C18: classify_update(current, latest) returns "MAJOR" iff both leading
\* components parse as unsigned integers and latest's exceeds current's;
\* otherwise "minor" iff the majors are equal, both versions have a second
\* component that parses, and latest's exceeds current's; otherwise
\* "patch".  It returns "patch" whenever a major component of either
\* version fails to parse.
C18_ClassifyUpdate ==
    InClassifyUpdate =>
        LET cm == parse_u32(LeadingComponent(args.current))
            lm == parse_u32(LeadingComponent(args.latest))
            cmi == SecondComponent(args.current)
            lmi == SecondComponent(args.latest)
            major == cm # << >> /\ lm # << >> /\ u32_gt(lm[1], cm[1])
            minor == /\ ~major
                     /\ cm # << >> /\ lm # << >> /\ cm = lm
                     /\ cmi # << >> /\ lmi # << >>
                     /\ u32_gt(lmi[1], cmi[1])
        IN  /\ ret = <<"M","A","J","O","R">> <=> major
            /\ ret = <<"m","i","n","o","r">> <=> minor
            /\ ret = <<"p","a","t","c","h">> <=> (~major /\ ~minor)
            /\ (cm = << >> \/ lm = << >>) => ret = <<"p","a","t","c","h">>


(***************************************************************************)
(* Claims about determine_exit_code and the ignore list.                   *)
(***************************************************************************)
InDetermineExitCode == pc = "determine_exit_code"

\* 1 for Critical down to 4 for Low
LevelRank(level) ==
    CASE level = "Critical" -> 1 [] level = "High" -> 2
      [] level = "Medium" -> 3 [] level = "Low" -> 4

\* the ranks of the severities present in the vulnerabilities, Unknown
\* left out
PresentRanks(vulnerabilities) ==
    { LevelRank(vulnerabilities[i].severity) :
          i \in { j \in 1..Len(vulnerabilities) :
                      vulnerabilities[j].severity # "Unknown" } }

\* the list without the vulnerabilities of severity Unknown
RECURSIVE WithoutUnknown(_)
WithoutUnknown(vulnerabilities) ==
    IF vulnerabilities = << >> THEN << >>
    ELSE IF Head(vulnerabilities).severity = "Unknown"
    THEN WithoutUnknown(Tail(vulnerabilities))
    ELSE <<Head(vulnerabilities)>> \o WithoutUnknown(Tail(vulnerabilities))

\* C19: determine_exit_code returns 0 when --fail-on is not given; with
\* --fail-on L it returns a non-zero code iff some vulnerability has a
\* severity at or above L in the order Critical > High > Medium > Low, and
\* that code names the highest severity present: 2 Critical, 3 High,
\* 4 Medium, 5 Low.  Vulnerabilities of severity Unknown and outdated
\* records never change the exit code.
C19_ExitCode ==
    InDetermineExitCode =>
        LET present == PresentRanks(args.result.vulnerabilities)
            highest == CHOOSE r \in present : \A q \in present : r <= q
        IN  /\ args.fail_on = << >> => ret = 0
            /\ args.fail_on # << >> =>
                   LET l == LevelRank(args.fail_on[1])
                   IN  /\ ret # 0 <=> \E r \in present : r <= l
                       /\ ret # 0 => ret = highest + 1
            /\ ret = determine_exit_code(
                         [args.result EXCEPT
                            !.vulnerabilities = WithoutUnknown(@),
                            !.outdated = << >>],
                         args.fail_on)

\* --fail-on low with a High vulnerability after a Low and an Unknown one,
\* and an outdated record
C19_Witness ==
    /\ InDetermineExitCode
    /\ args.fail_on = <<"Low">>
    /\ Len(args.result.vulnerabilities) = 3
    /\ args.result.vulnerabilities[1].severity = "Low"
    /\ args.result.vulnerabilities[2].severity = "Unknown"
    /\ args.result.vulnerabilities[3].severity = "High"
    /\ args.result.outdated # << >>
    /\ ret = 3

InRun == pc = "run"

\* C20: a package whose id matches an entry of Config.ignore.packages,
\* exactly or through a glob entry, does not appear among the packages of
\* the result of a scan run with that configuration.
C20_IgnoredPackagesAbsent ==
    InRun =>
        \A i \in 1..Len(ret.packages) :
            ~should_ignore_package(args.config.ignore, ret.packages[i].id)


(***************************************************************************)
(* Claims about the cache.                                                 *)
(***************************************************************************)
\* C21: Cache.get(k) returns the value last stored by set(k, v) as long as
\* the age of the entry does not exceed the TTL; once the age exceeds the
\* TTL get(k) returns None, and so does every later get(k) until the next
\* set(k); get of a key that was never set returns None.
C21_GetReturnsLastStored ==
    pc = "cache_get" =>
        LET entry == stored[args.key]
        IN  IF entry = << >> THEN ret = << >>
            ELSE IF now - entry[1].at <= locals.ttl
            THEN ret = <<entry[1].value>>
            ELSE ret = << >>


(***************************************************************************)
(* Claims about glob_match.                                                *)
(***************************************************************************)
InGlobMatch == pc = "glob_match"

\* text is pattern with every '*' replaced by some string
RECURSIVE Instance(_, _)
Instance(pattern, text) ==
    IF pattern = << >> THEN text = << >>
    ELSE IF Head(pattern) = ASTERISK
    THEN \E k \in 0..Len(text) :
             Instance(Tail(pattern), SubSeq(text, k + 1, Len(text)))
    ELSE /\ text # << >>
         /\ Head(text) = Head(pattern)
         /\ Instance(Tail(pattern), Tail(text))

\* C22: glob_match(pattern, text) is true iff text can be obtained from
\* pattern by replacing every '*' with some possibly empty string; a
\* pattern without '*' matches only the identical text, and the prefix
\* before the first '*' and the suffix after the last one match parts of
\* the text that do not overlap.
C22_GlobMatch ==
    InGlobMatch =>
        /\ ret <=> Instance(args.pattern, args.text)
        /\ ~contains_char(args.pattern, ASTERISK) =>
               (ret <=> args.pattern = args.text)

\* the pattern a*a has been matched against the text a
C22_Witness ==
    /\ InGlobMatch
    /\ args.pattern = <<"a", ASTERISK, "a">>
    /\ args.text = <<"a">>
    /\ ret = FALSE


(***************************************************************************)
(* Claims about the steps of analyze_host_permissions and analyze_csp.     *)
(***************************************************************************)
\* the place of a scope in None < Specific < Broad < AllUrls
ScopeRank(scope) ==
    CASE scope = "None" -> 0 [] scope = "Specific" -> 1
      [] scope = "Broad" -> 2 [] scope = "AllUrls" -> 3

\* C23: while analyze_host_permissions scans a non-empty pattern list the
\* running scope never moves down the order Specific < Broad < AllUrls from
\* one pattern to the next: once AllUrls it stays AllUrls, once Broad it
\* never returns to Specific; and the scope returned is the last one.
C23_ScopeNeverDowngrades ==
    [][/\ (pc = "host_loop" /\ pc' = "host_loop") =>
              /\ ScopeRank(locals'.scope) >= ScopeRank(locals.scope)
              /\ locals.scope = "AllUrls" => locals'.scope = "AllUrls"
              /\ locals.scope = "Broad" => locals'.scope # "Specific"
       /\ (pc = "host_loop" /\ pc' = "analyze_host_permissions") =>
              /\ ret'.scope = locals.scope
              /\ ret' = analyze_host_permissions(args.hosts)]_vars

\* the scan stands after <all_urls> and before a wildcard pattern and a
\* plain one, the scope being AllUrls
C23_Witness ==
    /\ pc = "host_loop"
    /\ Len(args.hosts) = 3
    /\ locals.i = 2
    /\ is_all_urls_pattern(args.hosts[1])
    /\ args.hosts[2] = HTTPS_WILD_A_ALL
    /\ args.hosts[3] = HTTPS_A_ALL
    /\ locals.scope = "AllUrls"


CspPcs == {"csp_loop", "csp_values"}

\* C24: during analyze_csp the running score never decreases: after each
\* processed directive value and after the final remote-script step the
\* score is at least its value before that step; and the analysis returned
\* is the one analyze_csp computes.
C24_CspScoreNeverDecreases ==
    [][/\ (pc \in CspPcs /\ pc' \in CspPcs) =>
              locals'.analysis.score >= locals.analysis.score
       /\ (pc \in CspPcs /\ pc' = "analyze_csp") =>
              /\ ret'.score >= locals.analysis.score
              /\ ret' = analyze_csp(args.csp)]_vars

\* the last directive has been processed with unsafe-eval, unsafe-inline
\* and a remote script source found, before the remote-script step
C24_Witness ==
    /\ pc = "csp_loop"
    /\ locals.directives = << >>
    /\ locals.analysis.score = 70
    /\ locals.analysis.allows_remote_scripts
    /\ locals.analysis.allowed_domains # << >>


(***************************************************************************)
(* Claims about OsvChecker::check.                                         *)
(***************************************************************************)
InCheck == pc = "check"

\* the sources with an OSV ecosystem
OsvSources == {"Npm", "Homebrew"}

\* the number of batches of the call
BatchCount ==
    LET n == Cardinality({ i \in 1..Len(args.packages) :
                               args.packages[i].source \in OsvSources })
    IN  (n + BATCH_SIZE - 1) \div BATCH_SIZE

\* the number of queries of batch c
BatchLength(c) ==
    LET n == Cardinality({ i \in 1..Len(args.packages) :
                               args.packages[i].source \in OsvSources })
    IN  IF c < BatchCount THEN BATCH_SIZE ELSE n - (BatchCount - 1) * BATCH_SIZE

\* the ids of the vulnerabilities that the answer to batch c holds at
\* positions that have a query
AnsweredIds(c) ==
    LET m == IF args.outcomes[c] = "short" THEN BatchLength(c) - 1
             ELSE BatchLength(c)
    IN  { <<"OSV-", c, "-", i, "-", 1>> :
              i \in { k \in 0..(m - 1) : k % 4 \in {0, 3} } }
        \cup { <<"OSV-", c, "-", i, "-", 2>> :
                   i \in { k \in 0..(m - 1) : k % 4 = 0 } }

\* C25: check never returns an error: when the batch query of one chunk of
\* up to 100 checkable packages fails, that chunk contributes no
\* vulnerabilities, and the vulnerabilities found for every other chunk are
\* still returned, in chunk order.
C25_FailedBatchSkipped ==
    InCheck =>
        /\ ret.ok
        /\ \A k \in 1..Len(ret.value) : args.outcomes[ret.value[k].id[2]] # "err"
        /\ \A k \in 1..(Len(ret.value) - 1) :
               ret.value[k].id[2] <= ret.value[k + 1].id[2]
        /\ { ret.value[k].id : k \in 1..Len(ret.value) }
             = UNION { AnsweredIds(c) :
                           c \in { b \in 1..BatchCount :
                                       args.outcomes[b] # "err" } }
        /\ Len(ret.value)
             = Cardinality({ ret.value[k].id : k \in 1..Len(ret.value) })

\* three batches, the second of which failed while the first and the third
\* were answered
C25_Witness ==
    /\ InCheck
    /\ BatchCount = 3
    /\ args.outcomes[1] = "exact"
    /\ args.outcomes[2] = "err"
    /\ args.outcomes[3] = "exact"
    /\ \E k \in 1..Len(ret.value) : ret.value[k].id[2] = 1
    /\ \E k \in 1..Len(ret.value) : ret.value[k].id[2] = 3

\* C26: every Vulnerability returned by check carries the package_id of
\* the package whose query stood at the same position in the batch request
\* as the response entry that contained it, for every mix of sources and
\* every chunk; packages whose source has no OSV ecosystem are never
\* queried and never receive a vulnerability.
C26_VulnerabilityOfQueriedPackage ==
    InCheck =>
        LET queried == SelectSeq(args.packages,
                           LAMBDA p : p.source \in OsvSources)
        IN  /\ \A k \in 1..Len(ret.value) :
                   LET c == ret.value[k].id[2]
                       i == ret.value[k].id[4]
                   IN  ret.value[k].package_id
                           = queried[(c - 1) * BATCH_SIZE + i + 1].id
            /\ \A c \in 1..BatchCount :
                   LET chunk == chunks(checkable_packages(args.packages),
                                       BATCH_SIZE)[c]
                       queries == batch_queries(chunk)
                   IN  /\ Len(queries) = BatchLength(c)
                       /\ \A q \in 1..Len(queries) :
                              /\ queries[q].package.name
                                     = queried[(c - 1) * BATCH_SIZE + q].id
                              /\ queries[q].package.ecosystem
                                     \in {"npm", "Homebrew"}

\* packages of two sources in two batches, the second answered: a
\* vulnerability of the second batch belongs to a package behind packages
\* that were not queried
C26_Witness ==
    /\ InCheck
    /\ BatchCount = 2
    /\ \E i \in 1..Len(args.packages) : args.packages[i].source = "Chrome"
    /\ \E k \in 1..Len(ret.value) :
           /\ ret.value[k].id[2] = 2
           /\ ret.value[k].package_id[2]
                  > BATCH_SIZE + ret.value[k].id[4] + 1


(***************************************************************************)
(* Claims about scan_concurrent and scan_sequential.                       *)
(***************************************************************************)
\* the packages that the scanners at positions i.. of a list find: those
\* of the supported scanners whose scan succeeds, in the order of the list
RECURSIVE PackagesFrom(_, _)
PackagesFrom(scanners, i) ==
    IF i > Len(scanners) THEN << >>
    ELSE (IF scanners[i].is_supported /\ scanners[i].scan.ok
          THEN scanners[i].scan.value ELSE << >>)
         \o PackagesFrom(scanners, i + 1)

\* C27: scan_concurrent and scan_sequential return the same package list
\* for the same scanners: the packages of each scanner in scanner-list
\* order, whatever the order in which the concurrent scans complete, with
\* an unsupported scanner or a scanner whose scan fails contributing no
\* packages and not affecting the packages of the others.
C27_ConcurrentAsSequential ==
    /\ pc = "scan_concurrent" =>
           /\ ret = scan_sequential(args.scanners)
           /\ ret = PackagesFrom(args.scanners, 1)
    /\ pc = "scan_sequential" => ret = PackagesFrom(args.scanners, 1)

\* three scanners whose scans completed last to first: the first and the
\* third found two packages each, the second failed
C27_Witness ==
    /\ pc = "scan_concurrent"
    /\ Len(args.scanners) = 3
    /\ locals.completed = <<3, 2, 1>>
    /\ args.scanners[1].is_supported
    /\ args.scanners[1].scan.ok
    /\ Len(args.scanners[1].scan.value) = 2
    /\ ~args.scanners[2].scan.ok
    /\ args.scanners[3].is_supported
    /\ Len(ret) = 4


(***************************************************************************)
(* The issues of a report and its total score.                             *)
(***************************************************************************)
\* C28: whenever the report returned by analyze_extension has a non-empty
\* issue list, its total_score is at least 40 and its risk_level is not
\* "low"; a report with a Critical-severity issue has total_score >= 50.
C28_IssuesImplyScore ==
    InAnalyzeExtension =>
        /\ ret.issues # << >> =>
               /\ ret.total_score >= 40
               /\ ret.risk_level # <<"low">>
        /\ (\E i \in 1..Len(ret.issues) : ret.issues[i].severity = "Critical")
               => ret.total_score >= 50

\* the least case of a Critical issue: one optional critical permission,
\* no host permission and a CSP that scores nothing, for a total of 50
C28_Witness ==
    /\ InAnalyzeExtension
    /\ args.permissions = << >>
    /\ args.optional_permissions = <<"debugger">>
    /\ args.host_permissions = << >>
    /\ Len(ret.issues) = 1
    /\ ret.issues[1].severity = "Critical"
    /\ ret.total_score = 50


(***************************************************************************)
(* The table formatter and the HTML formatter.                             *)
(***************************************************************************)
\* C29: the two copies of calculate_health_score and of classify_update,
\* in the table formatter and in the HTML formatter, return the same value
\* for every scan result and every (current, latest) pair.
C29_FormattersAgree ==
    /\ pc = "html_calculate_health_score" =>
           ret = calculate_health_score(args.result)
    /\ pc = "html_classify_update" =>
           ret = classify_update(args.current, args.latest)

\* the HTML formatter scores a result with a vulnerability of unknown
\* severity and a major update between 0 and 100
C29_Witness ==
    /\ pc = "html_calculate_health_score"
    /\ \E i \in 1..Len(args.result.vulnerabilities) :
           args.result.vulnerabilities[i].severity = "Unknown"
    /\ \E i \in 1..Len(args.result.outdated) :
           html_is_major(args.result.outdated[i])
    /\ ret > 0
    /\ ret < 100


(***************************************************************************)
(* Claims about run_watch.                                                 *)
(***************************************************************************)
InRunWatch == pc = "run_watch"

\* the id@version keys of the packages of a scan
PackageKeys(result) ==
    { <<p.id, "@", p.version>> :
          p \in { result.packages[i] : i \in 1..Len(result.packages) } }

\* the package_id/vuln_id keys of the vulnerabilities of a scan
VulnKeys(result) ==
    { <<v.package_id, "/", v.id>> :
          v \in { result.vulnerabilities[i] :
                      i \in 1..Len(result.vulnerabilities) } }

\* a printed key with its parts told apart
PrintedPackageKeys(keys) ==
    { <<p.id, "@", p.version>> :
          p \in { q \in WatchPackageSamples :
                      q.id \o <<"@">> \o q.version \in keys } }

PrintedVulnKeys(keys) ==
    { <<ids[1], "/", ids[2]>> :
          ids \in { x \in { <<"a">> } \X { <<"V", "1">>, <<"V", "2">> } :
                        x[1] \o <<"/">> \o x[2] \in keys } }

\* C30: in watch mode the first iteration reports only a summary; every
\* later iteration reports as new exactly the id@version keys present in
\* the current scan and absent from the immediately preceding scan, as
\* removed exactly those present in the preceding scan and absent now,
\* likewise new and resolved vulnerabilities keyed package_id/vuln_id, and
\* reports "No changes detected" iff all four differences are empty; the
\* loop never terminates by itself.
C30_WatchReportsChanges ==
    [][InRunWatch =>
          /\ pc' = "run_watch"
          /\ LET report == locals'.report
                 before == locals.result
                 after  == locals'.result
             IN  IF locals.first_run
                 THEN /\ report.summary # << >>
                      /\ ~report.no_changes
                      /\ report.new_packages = {}
                      /\ report.removed_packages = {}
                      /\ report.new_vulns = {}
                      /\ report.resolved_vulns = {}
                 ELSE /\ report.summary = << >>
                      /\ PrintedPackageKeys(report.new_packages)
                           = PackageKeys(after) \ PackageKeys(before)
                      /\ PrintedPackageKeys(report.removed_packages)
                           = PackageKeys(before) \ PackageKeys(after)
                      /\ PrintedVulnKeys(report.new_vulns)
                           = VulnKeys(after) \ VulnKeys(before)
                      /\ PrintedVulnKeys(report.resolved_vulns)
                           = VulnKeys(before) \ VulnKeys(after)
                      /\ Cardinality(report.new_packages)
                           = Cardinality(PackageKeys(after) \ PackageKeys(before))
                      /\ Cardinality(report.removed_packages)
                           = Cardinality(PackageKeys(before) \ PackageKeys(after))
                      /\ Cardinality(report.new_vulns)
                           = Cardinality(VulnKeys(after) \ VulnKeys(before))
                      /\ Cardinality(report.resolved_vulns)
                           = Cardinality(VulnKeys(before) \ VulnKeys(after))
                      /\ report.no_changes
                           <=> /\ PackageKeys(after) = PackageKeys(before)
                               /\ VulnKeys(after) = VulnKeys(before)
      ]_vars

\* a later iteration that found a new version of a package in place of the
\* old one, and the vulnerability of the package gone
C30_Witness ==
    /\ InRunWatch
    /\ ~locals.first_run
    /\ locals.report # << >>
    /\ locals.report.summary = << >>
    /\ locals.report.new_packages = {<<"a", "@", "2">>}
    /\ locals.report.removed_packages = {<<"a", "@", "1">>}
    /\ locals.report.resolved_vulns # {}

====
